---- MODULE Spec2Model ----
(***************************************************************************)
(* Model of imp_developer.py (Electric Imp Sublime plug-in):               *)
(*   - LogManager: the log session state machine and its stream reader,    *)
(*   - update_log_windows: the periodic / forced scheduler of the session, *)
(*   - BaseElectricImpCommand.run and the prerequisite commands.           *)
(* Sublime runs set_timeout callbacks and commands on the main thread and  *)
(* set_timeout_async callbacks one after another on one async thread.      *)
(***************************************************************************)
EXTENDS Naturals, Integers, Sequences, FiniteSets, TLC

VARIABLES
    lm,         \* the LogManager object of the project (its fields)
    wire,       \* lines the server has sent on the open connection, end of stream
    opened,     \* ids of the connections that are open on the client side
    nextStream, \* number of log streams the cloud has created so far
    asyncq,     \* callbacks queued by sublime.set_timeout_async, in order
    drn,        \* the running __update_logs callback: position and locals
    now,        \* wall clock, seconds
    registry,   \* TRUE while project_env_map holds the project's Env
    project_ok, \* TRUE while the window is an Electric Imp project window
    period,     \* delay of the pending periodic update_log_windows, ms
    timers,     \* number of pending sublime.set_timeout(update_log_windows, ms)
    peer,       \* the Env of a second project: in project_env_map, its LogManager
    last,       \* what the last handler did (its calls and console lines)
    terminal,   \* TRUE once Env.terminal holds the output panel
    cfg,        \* what the settings and auth files hold, and what the disk holds
    coc,        \* cmd_on_complete of the command object of each command
    stack,      \* the synchronous run_command calls that have not returned
    panel,      \* the input or quick panel that is open, "none" without one
    ev,         \* what the last step of a command did, and the counters of its chain
    reads,      \* the batches given to __update_logs and what each one showed
    feed,       \* the lines the server is to send, and what __read_logs returned
    code        \* the preprocessed files and the line tables of Env.code_processor

logvars == <<lm, wire, opened, nextStream, asyncq, drn, now, registry, project_ok,
             period, timers, last>>
cmdvars == <<terminal, cfg, coc, stack, panel, ev>>
vars == <<lm, wire, opened, nextStream, asyncq, drn, now, registry, project_ok,
          period, timers, peer, last, terminal, cfg, coc, stack, panel, ev, reads,
          feed, code>>

(***************************************************************************)
(* Bounds of the model.                                                    *)
(***************************************************************************)
MaxQueue == 2
MaxBuf == 3
MaxChunks == 2
MaxStreams == 2
MaxDevices == 1
MaxClock == 61
MaxDepth == 3
MaxAuto == 2
MaxCommands == 1
MaxUnmet == 2
MaxRecords == 2
MaxReads == 3
MaxFrames == 31
MaxLinesAtOnce == 12
MaxScript == 2
MaxErrorBatch == 2
MaxErrorReads == 2

(***************************************************************************)
(* Program constants.                                                      *)
(***************************************************************************)
PL_KEEP_ALIVE_TIMEOUT == 60
PL_LOGS_UPDATE_LONG_PERIOD == 1000
PL_LOGS_UPDATE_SHORT_PERIOD == 300
PL_LOGS_MAX_PER_REQUEST == 30
SECONDS_PER_DAY == 86400

IDLE == 0
INIT == 1
POLL == 2
FAIL == 3

\* None, for a stream id (poll_url, sock) and for a timestamp (keep_alive)
NoId == 0
NoTime == 0 - 1
NoSock == [id |-> NoId, fp |-> FALSE]
\* None or "", for a log string
NoLog == <<>>

\* the status lines of the session, one word each
STR_MESSAGE_LOG_STREAM_REQUESTED == << <<"STR_MESSAGE_LOG_STREAM_REQUESTED">> >>
STR_MESSAGE_LOG_STREAM_RESTART == << <<"STR_MESSAGE_LOG_STREAM_RESTART">> >>
STR_MESSAGE_LOG_STREAM_STOPPED == << <<"STR_MESSAGE_LOG_STREAM_STOPPED">> >>
STR_MESSAGE_LOG_STREAM_NOT_STARTED == << <<"STR_MESSAGE_LOG_STREAM_NOT_STARTED">> >>
STR_MESSAGE_LOG_STREAM_STARTED == << <<"STR_MESSAGE_LOG_STREAM_STARTED">> >>
STR_MESSAGE_ASSIGN_DEVICE == << <<"STR_MESSAGE_ASSIGN_DEVICE">> >>
\* "Stream was closed by server event.\n"
STR_STREAM_CLOSED == << <<"Stream", "was", "closed", "by", "server", "event.">> >>

(***************************************************************************)
(* Text.  A log string is a sequence of lines, each line a sequence of the *)
(* words that str.split(" ") separates; every line ends with "\n".         *)
(***************************************************************************)
\* words that datetime.strptime(w, IMPC_DATA_FORMAT) accepts
DateWords == {"2018-01-01T00:00:00.000Z"}

\* a well-formed record: device, timestamp, deployment, type, text
LogA == << <<"dev1", "2018-01-01T00:00:00.000Z", "dep1", "server.log", "A">> >>
LogB == << <<"dev1", "2018-01-01T00:00:00.000Z", "dep1", "server.log", "B">> >>

\* the lines of the event stream
EvMessage == [k |-> "event: message"]
EvStateChange == [k |-> "event: state_change"]
Blank == [k |-> "blank"]
KeepAliveLine == [k |-> ": keep-alive"]
Data(w) == [k |-> "data", w |-> w]
DataClosed == Data(<<"closed">>)
DataOpened == Data(<<"opened">>)

\* what the server sends in one piece
Chunks == { <<EvMessage, Data(LogA[1]), Blank>>,
            <<EvMessage, Data(LogB[1]), Blank>>,
            <<EvStateChange, DataClosed, Blank>>,
            <<EvStateChange, DataOpened, Blank>>,
            <<KeepAliveLine>>,
            <<EvMessage, Data(LogA[1])>> }

\* log.split(" "): the last word of a line carries the line's "\n", so the last
\* word of a line and the first word of the next line are one token
RECURSIVE split(_)
split(log) ==
    IF Len(log) = 0 THEN <<"">>
    ELSE IF Len(log) = 1 THEN log[1]
    ELSE LET rest == split(Tail(log))
             l == log[1]
         IN SubSeq(l, 1, Len(l) - 1) \o <<l[Len(l)] \o "\n" \o rest[1]>> \o Tail(rest)

(***************************************************************************)
(* Preprocessor: the line tables of the preprocessed agent and device code *)
(***************************************************************************)
\* SourceType
AGENT == 0
DEVICE == 1

PR_AGENT_FILE_NAME == "agent.nut"
PR_DEVICE_FILE_NAME == "device.nut"

\* a line of a preprocessed file: a '//line n "f"' mark, or any other text
Mark(n, f) == [mark |-> TRUE, n |-> n, f |-> f]
Text == [mark |-> FALSE, n |-> 0, f |-> ""]

\* a file of the build directory; exists = FALSE when os.path.exists is False
NoFile == [exists |-> FALSE, lines |-> <<>>]
File(lines) == [exists |-> TRUE, lines |-> lines]

\* a line table: built = FALSE for None, rows[i + 1] is the value of key str(i)
NoTable == [built |-> FALSE, rows |-> <<>>]
NoLoc == [file |-> "", line |-> 0]

\* Preprocessor.__init__, with no preprocessed file in the build directory
NoCode ==
    [files |-> [st \in {AGENT, DEVICE} |-> NoFile],
     line_table |-> [st \in {AGENT, DEVICE} |-> NoTable]]

\* the "while 1" loop of __build_line_table_for: the entry of the current line,
\* then the next line read
RECURSIVE read_lines(_, _, _)
read_lines(lines, orig_file, orig_line) ==
    <<[file |-> orig_file, line |-> orig_line]>> \o
    (IF lines = <<>> THEN <<>>
     ELSE IF lines[1].mark
          THEN read_lines(Tail(lines), lines[1].f, (lines[1].n - 1) + 1)
          ELSE read_lines(Tail(lines), orig_file, orig_line + 1))

\* Preprocessor.__build_line_table_for
__build_line_table_for(source_type, files) ==
    IF source_type \notin {AGENT, DEVICE} THEN NoTable
    ELSE [built |-> TRUE,
          rows |-> IF files[source_type].exists
                   THEN read_lines(files[source_type].lines,
                                   IF source_type = AGENT THEN PR_AGENT_FILE_NAME
                                   ELSE PR_DEVICE_FILE_NAME, 0)
                   ELSE <<>>]

\* Preprocessor.__build_line_table
__build_line_table(c) ==
    [c EXCEPT !.line_table =
        [st \in DOMAIN c.line_table |-> __build_line_table_for(st, c.files)]]

\* the last line of get_error_location: none when it returns None, raised
\* when code_table[str(line)] raises KeyError
lookup(code_table, line) ==
    IF ~code_table.built THEN [none |-> TRUE, raised |-> FALSE, loc |-> NoLoc]
    ELSE IF line \in 0..(Len(code_table.rows) - 1)
    THEN [none |-> FALSE, raised |-> FALSE, loc |-> code_table.rows[line + 1]]
    ELSE [none |-> FALSE, raised |-> TRUE, loc |-> NoLoc]

\* get_error_location once the tables are as c1 holds them
located(c1, source_type, line) ==
    [code |-> c1, at |-> lookup(c1.line_table[source_type], line)]

\* Preprocessor.get_error_location
get_error_location(c, source_type, line) ==
    located(IF ~c.line_table[source_type].built
               \/ c.line_table[source_type].rows = <<>>
            THEN __build_line_table(c) ELSE c,
            source_type, line)

(***************************************************************************)
(* The execution context of one handler: the objects it works on and what  *)
(* it has done so far (console lines, scheduled callbacks, calls).         *)
(***************************************************************************)
NewLocals == [count |-> PL_LOGS_MAX_PER_REQUEST, next_log |-> FALSE,
              next_cmd |-> FALSE, logs |-> <<>>, log_message |-> <<>>]

\* no lines to send
NoFeed == [script |-> <<>>, pos |-> 0, emitted |-> <<>>]

RetNone == [none |-> TRUE, logs |-> <<>>]
RetLogs(logs) == [none |-> FALSE, logs |-> logs]

Ctx(l, w, o, n, t, c) ==
    [lm |-> l, wire |-> w, opened |-> o, nextStream |-> n, now |-> t,
     registry |-> c.registry, terminal |-> c.terminal, cfg |-> c.cfg,
     coc |-> c.coc, stack |-> c.stack, panel |-> c.panel, code |-> c.code,
     peer |-> c.peer,
     lookups |-> <<>>,      \* calls of Preprocessor.get_error_location
     checks |-> <<>>,       \* indexes of the prerequisite checks evaluated
     invoked |-> <<>>,      \* window.run_command calls
     acted |-> <<>>,        \* commands whose action() was entered
     canceled |-> FALSE,    \* on_action_complete(canceled=True) was called
     declined |-> FALSE,    \* the user answered Cancel in a dialog
     failed |-> FALSE,      \* a cloud request of a remediation failed
     wrote |-> {},          \* the settings written
     asked |-> 0,           \* dialogs the user answered
     requests |-> <<>>,     \* requests sent to the cloud
     denied |-> FALSE,      \* a request was answered "invalid credentials"
     unmet |-> {},          \* indexes of the prerequisites that do not hold
     cie |-> FALSE,         \* result of BaseElectricImpCommand.check_imp_error
     written |-> <<>>,      \* lines given to ui_manager.write_to_console
     sched |-> <<>>,        \* callbacks given to sublime.set_timeout_async
     exc |-> FALSE,         \* an exception is propagating
     blocked |-> FALSE,     \* the handler waits in a blocking read
     resets |-> 0,          \* calls of reset()
     closes |-> 0,          \* calls of sock.close()
     timers |-> 0,          \* calls of sublime.set_timeout(update_log_windows, ms)
     pre |-> l,             \* the fields when reset() was first entered
     snap |-> l,            \* the fields when reset() last returned
     closedRead |-> FALSE,  \* a "data: closed" state frame was read
     created |-> {},        \* ids of the log streams created
     loc |-> NewLocals,     \* locals of __read_logs
     lines |-> 0,           \* lines read from the stream in this step
     ret |-> RetNone]       \* value returned by query_logs

\* since: the time the connection was opened or its last line arrived
NoWire == [buf |-> <<>>, eof |-> FALSE, sent |-> 0, since |-> 0]

(***************************************************************************)
(* LogManager                                                              *)
(***************************************************************************)
\* LogManager.__init__
LogManagerInit ==
    [poll_url |-> NoId, last_shown_log |-> NoLog, sock |-> NoSock, devices |-> <<>>,
     state |-> IDLE, update_log_started |-> FALSE, keep_alive |-> NoTime]

\* LogManager.__parse_log; ok = FALSE when strptime raises ValueError.
\* The message of a record is " ".join(ms)[:-1]: the remaining tokens
\* without the final newline.
__parse_log(log, status_log) ==
    LET ms == split(log) IN
    IF Len(ms) < 4 \/ status_log
    THEN [ok |-> TRUE, device |-> "sublime", type |-> "[status.log]",
          deployment |-> "", message |-> ms]
    ELSE IF ms[2] \in DateWords
         THEN [ok |-> TRUE, device |-> ms[1], deployment |-> ms[3], type |-> ms[4],
               message |-> SubSeq(ms, 5, Len(ms))]
         ELSE [ok |-> FALSE, device |-> ms[1], deployment |-> "", type |-> "",
               message |-> <<>>]

\* str(n) for the numbers of the model
Num(n) == <<"0", "1", "2", "3", "4", "5", "6", "7", "8", "9", "10", "11", "12">>[n + 1]

\* STR_ERR_RUNTIME_ERROR.format(func_name, orig_file, orig_line)
STR_ERR_RUNTIME_ERROR(func_name, orig_file, orig_line) ==
    <<"STR_ERR_RUNTIME_ERROR", func_name, orig_file, Num(orig_line)>>

\* the words "main:n" that end a runtime error of the function "main", and
\* int(match.group(2)) of each
Lines == [w \in {"main:" \o Num(n) : n \in 0..9} |->
             CHOOSE n \in 0..9 : w = "main:" \o Num(n)]

\* pattern.match(log["message"]) for the runtime errors of the function "main":
\* "ERROR:", then "at", "from" or "in", then the function and ":line"
match(message) ==
    IF /\ Len(message) >= 3
       /\ message[1] = "ERROR:"
       /\ message[2] \in {"at", "from", "in"}
       /\ message[3] \in DOMAIN Lines
    THEN [ok |-> TRUE, func_name |-> "main", line |-> Lines[message[3]]]
    ELSE [ok |-> FALSE, func_name |-> "", line |-> 0]

\* lines 2542-2550 once get_error_location has ended as r: the message is
\* rewritten unless the lookup raised, or returned None so that the unpacking
\* raises; "except: pass" keeps the message.  lookups records each call of
\* get_error_location and the index of the console line it is made for.
translated(e, item, func_name, source_type, line_read, r) ==
    [e |-> [e EXCEPT !.code = r.code,
                     !.lookups = Append(@, [at |-> Len(e.written) + 1,
                         source_type |-> source_type, line |-> line_read,
                         none |-> r.at.none, raised |-> r.at.raised,
                         loc |-> r.at.loc])],
     message |-> IF r.at.none \/ r.at.raised THEN item.message
                 ELSE STR_ERR_RUNTIME_ERROR(func_name, r.at.loc.file, r.at.loc.line)]

\* lines 2540-2550 for the match m
matched(e, item, m, source_type) ==
    IF m.ok
    THEN translated(e, item, m.func_name, source_type, m.line - 1,
                    get_error_location(e.code, source_type, m.line - 1))
    ELSE [e |-> e, message |-> item.message]

\* lines 2542-2550 without the try/except: a lookup that fails raises
translated_raising(t, r) == [t EXCEPT !.e.exc = r.at.none \/ r.at.raised]

matched_raising(e, item, m, source_type) ==
    IF m.ok
    THEN translated_raising(
             translated(e, item, m.func_name, source_type, m.line - 1,
                        get_error_location(e.code, source_type, m.line - 1)),
             get_error_location(e.code, source_type, m.line - 1))
    ELSE [e |-> e, message |-> item.message]

\* convert_line_numbers without its try/except
convert_line_numbers_raising(e, item) ==
    IF item.type \in {"server.error", "agent.error"}
    THEN matched_raising(e, item, match(item.message),
                         IF item.type = "agent.error" THEN AGENT ELSE DEVICE)
    ELSE [e |-> e, message |-> item.message]

\* LogManager.convert_line_numbers: only "server.error" / "agent.error"
\* messages that the pattern matches are rewritten
convert_line_numbers(e, item) ==
    IF item.type \in {"server.error", "agent.error"}
    THEN matched(e, item, match(item.message),
                 IF item.type = "agent.error" THEN AGENT ELSE DEVICE)
    ELSE [e |-> e, message |-> item.message]

\* the last statement of write_to_console, for the converted message c
write_item(item, c) ==
    IF c.e.exc THEN c.e
    ELSE [c.e EXCEPT !.written =
             Append(@, [device |-> item.device, type |-> item.type,
                        message |-> c.message])]

\* write_to_console once __parse_log has returned item, or has raised
write_parsed(e, item) ==
    IF ~item.ok THEN [e EXCEPT !.exc = TRUE]
    ELSE write_item(item, convert_line_numbers(e, item))

\* LogManager.write_to_console
write_to_console(e, log, status_log) ==
    IF e.exc THEN e ELSE write_parsed(e, __parse_log(log, status_log))

\* start without the test of the state
start_from_any(e) ==
    write_to_console([e EXCEPT !.lm.state = INIT], STR_MESSAGE_LOG_STREAM_REQUESTED, TRUE)

\* LogManager.start
start(e) ==
    IF e.lm.state = IDLE
    THEN write_to_console([e EXCEPT !.lm.state = INIT],
                          STR_MESSAGE_LOG_STREAM_REQUESTED, TRUE)
    ELSE e

\* stop that queues nothing when it restarts
stop_without_start(e, is_restart) ==
    IF e.lm.state = POLL /\ is_restart
    THEN LET e1 == write_to_console(e, STR_MESSAGE_LOG_STREAM_RESTART, TRUE)
         IN [e1 EXCEPT !.lm.state = IDLE]
    ELSE LET e1 == IF e.lm.state = POLL
                   THEN write_to_console(e, STR_MESSAGE_LOG_STREAM_STOPPED, TRUE)
                   ELSE IF e.lm.state = INIT
                   THEN write_to_console(e, STR_MESSAGE_LOG_STREAM_NOT_STARTED, TRUE)
                   ELSE e
         IN [e1 EXCEPT !.lm.state = IDLE]

\* LogManager.stop
stop(e, is_restart) ==
    IF e.lm.state = POLL /\ is_restart
    THEN LET e1 == write_to_console(e, STR_MESSAGE_LOG_STREAM_RESTART, TRUE)
         IN [e1 EXCEPT !.lm.state = IDLE,
                       !.sched = Append(@, "update_log_windows(False)")]
    ELSE LET e1 == IF e.lm.state = POLL
                   THEN write_to_console(e, STR_MESSAGE_LOG_STREAM_STOPPED, TRUE)
                   ELSE IF e.lm.state = INIT
                   THEN write_to_console(e, STR_MESSAGE_LOG_STREAM_NOT_STARTED, TRUE)
                   ELSE e
         IN [e1 EXCEPT !.lm.state = IDLE]

\* reset without "self.sock = None"
reset_keeps_sock(e, is_restart) ==
    LET e0 == [e EXCEPT !.resets = @ + 1,
                        !.pre = IF e.resets = 0 THEN e.lm ELSE @]
        e1 == IF e0.lm.sock # NoSock
              THEN [e0 EXCEPT !.closes = @ + 1,
                              !.opened = @ \ {e0.lm.sock.id},
                              !.wire = NoWire]
              ELSE e0
        e2 == [e1 EXCEPT !.lm.poll_url = NoId,
                         !.lm.last_shown_log = NoLog,
                         !.lm.keep_alive = NoTime]
        e3 == stop(e2, is_restart)
    IN [e3 EXCEPT !.snap = e3.lm]

\* reset without "self.stop(is_restart)"
reset_without_stop(e, is_restart) ==
    LET e0 == [e EXCEPT !.resets = @ + 1,
                        !.pre = IF e.resets = 0 THEN e.lm ELSE @]
        e1 == IF e0.lm.sock # NoSock
              THEN [e0 EXCEPT !.closes = @ + 1,
                              !.opened = @ \ {e0.lm.sock.id},
                              !.wire = NoWire]
              ELSE e0
        e2 == [e1 EXCEPT !.lm.sock = NoSock,
                         !.lm.poll_url = NoId,
                         !.lm.last_shown_log = NoLog,
                         !.lm.keep_alive = NoTime]
    IN [e2 EXCEPT !.snap = e2.lm]

\* reset without "self.poll_url = None"
reset_keeps_poll_url(e, is_restart) ==
    LET e0 == [e EXCEPT !.resets = @ + 1,
                        !.pre = IF e.resets = 0 THEN e.lm ELSE @]
        e1 == IF e0.lm.sock # NoSock
              THEN [e0 EXCEPT !.closes = @ + 1,
                              !.opened = @ \ {e0.lm.sock.id},
                              !.wire = NoWire]
              ELSE e0
        e2 == [e1 EXCEPT !.lm.sock = NoSock,
                         !.lm.last_shown_log = NoLog,
                         !.lm.keep_alive = NoTime]
        e3 == stop(e2, is_restart)
    IN [e3 EXCEPT !.snap = e3.lm]

\* LogManager.reset
reset(e, is_restart) ==
    LET e0 == [e EXCEPT !.resets = @ + 1,
                        !.pre = IF e.resets = 0 THEN e.lm ELSE @]
        e1 == IF e0.lm.sock # NoSock
              THEN [e0 EXCEPT !.closes = @ + 1,
                              !.opened = @ \ {e0.lm.sock.id},
                              !.wire = NoWire]
              ELSE e0
        e2 == [e1 EXCEPT !.lm.sock = NoSock,
                         !.lm.poll_url = NoId,
                         !.lm.last_shown_log = NoLog,
                         !.lm.keep_alive = NoTime]
        e3 == stop(e2, is_restart)
    IN [e3 EXCEPT !.snap = e3.lm]

\* a request to the cloud
request(e, name) == [e EXCEPT !.requests = Append(@, name)]

\* a request of the log session to the cloud, and its answer
cloud_call(e, name, answer) ==
    [request(e, name) EXCEPT !.denied = @ \/ answer = "auth"]

\* LogManager.check_imp_error; error is "ok" (no error), "auth"
\* (INVALID_CREDENTIALS) or "fail"
LogManager_check_imp_error(e, error) ==
    IF error = "auth"
    THEN [e EXCEPT !.sched = Append(@, "imp_show_console(auth)")]
    ELSE e

(***************************************************************************)
(* LogManager.__read_logs.  The response object reads lines with a         *)
(* blocking readline: "for line in self.sock" waits when the buffer is     *)
(* empty and the stream has not ended; at the end of the stream the        *)
(* response closes itself (fp = None) and the iteration stops.             *)
(***************************************************************************)
\* line.decode("utf-8") of a line of the stream
decode(line) ==
    IF line.k = "data" THEN << <<"data:">> \o line.w >>
    ELSE IF line.k = "raw" THEN <<line.w>>
    ELSE << <<line.k>> >>

\* log_message += message[6:] for a "data:" line, += message otherwise
add_payload(log_message, line) ==
    IF line.k = "data" THEN Append(log_message, line.w)
    ELSE log_message \o decode(line)

\* "if not next_log and len(log_message) > 0" at the end of the for body, and
\* "if len(log_message) > 0" after the for loop
append_log(e) ==
    IF Len(e.loc.log_message) > 0
    THEN [e EXCEPT !.loc.logs = Append(@, e.loc.log_message),
                   !.loc.log_message = <<>>]
    ELSE e

end_of_body(e) == IF ~e.loc.next_log THEN append_log(e) ELSE e

\* lines 2401-2411: refresh the keep-alive time, or reset a silent stream
read_finish(e) ==
    IF Len(e.loc.logs) > 0
    THEN [e EXCEPT !.lm.keep_alive = e.now, !.ret = RetLogs(e.loc.logs)]
    ELSE IF e.lm.keep_alive # NoTime
            /\ ((e.now - e.lm.keep_alive) % SECONDS_PER_DAY) > PL_KEEP_ALIVE_TIMEOUT
         THEN [reset(e, FALSE) EXCEPT !.ret = RetLogs(<<>>)]
         ELSE [e EXCEPT !.ret = RetLogs(<<>>)]

RECURSIVE read_while(_)
RECURSIVE read_for(_)
RECURSIVE read_line(_)

\* one pass of "while count > 0": the select, then the for loop
read_while(e) ==
    IF e.loc.count <= 0 THEN read_finish(e)
    ELSE IF ~e.lm.sock.fp
         THEN [e EXCEPT !.exc = TRUE]     \* select: fileno() of a closed response
    ELSE IF Len(e.wire.buf) = 0 /\ ~e.wire.eof
         THEN read_finish(e)              \* not readable: break
    ELSE read_for(e)

\* "for line in self.sock" with a readline that returns at once when no line
\* has arrived: the invocation ends there
read_for_no_wait(e) ==
    IF Len(e.wire.buf) = 0
    THEN IF e.wire.eof
         THEN read_while(append_log([e EXCEPT !.lm.sock.fp = FALSE,
                                              !.opened = @ \ {e.lm.sock.id}]))
         ELSE read_finish(append_log(e))
    ELSE read_line(e)

\* "for line in self.sock", from the next line on.  The callback runs on the
\* async thread: after MaxLinesAtOnce lines it stands at the next readline
\* while the main thread and the server can act.
read_for(e) ==
    IF Len(e.wire.buf) = 0
    THEN IF e.wire.eof
         THEN read_while(append_log([e EXCEPT !.lm.sock.fp = FALSE,
                                              !.opened = @ \ {e.lm.sock.id}]))
         ELSE [e EXCEPT !.blocked = TRUE]
    ELSE IF e.lines >= MaxLinesAtOnce THEN [e EXCEPT !.blocked = TRUE]
    ELSE read_line(e)

\* the body of "for line in self.sock" for the next line, lines 2342-2394
read_line(e) ==
    LET line == Head(e.wire.buf)
        e1 == [e EXCEPT !.wire.buf = Tail(@), !.lines = @ + 1]
    IN
    IF line = EvMessage
    THEN LET e2 == IF e1.loc.next_log THEN append_log(e1) ELSE e1
         IN read_for(end_of_body([e2 EXCEPT !.loc.count = @ - 1,
                                            !.loc.log_message = <<>>,
                                            !.loc.next_log = TRUE,
                                            !.loc.next_cmd = FALSE]))
    ELSE IF line = EvStateChange
    THEN read_for(end_of_body([e1 EXCEPT !.loc.count = @ - 1,
                                         !.loc.next_cmd = TRUE,
                                         !.loc.next_log = FALSE]))
    ELSE IF line = Blank
    THEN read_while(append_log([e1 EXCEPT !.loc.next_log = FALSE,
                                          !.loc.next_cmd = FALSE]))
    ELSE IF line = KeepAliveLine
    THEN read_for(end_of_body([e1 EXCEPT !.lm.keep_alive = e1.now,
                                         !.loc.next_log = FALSE,
                                         !.loc.next_cmd = FALSE]))
    ELSE IF e1.loc.next_log
    THEN read_for(end_of_body([e1 EXCEPT !.loc.log_message = add_payload(@, line)]))
    ELSE IF e1.loc.next_cmd
    THEN LET e2 == [e1 EXCEPT !.loc.next_cmd = FALSE] IN
         IF line = DataClosed
         THEN LET e3 == reset([e2 EXCEPT !.closedRead = TRUE], FALSE)
              IN [e3 EXCEPT !.loc.logs = Append(@, STR_STREAM_CLOSED),
                            !.ret = RetLogs(Append(e3.loc.logs, STR_STREAM_CLOSED))]
         ELSE IF line = DataOpened
         THEN [e2 EXCEPT !.lm.keep_alive = e2.now, !.ret = RetLogs(e2.loc.logs)]
         ELSE read_for(end_of_body([e2 EXCEPT !.loc.logs = Append(@, decode(line))]))
    ELSE read_for(end_of_body(e1))

__read_logs(e) == read_while([e EXCEPT !.loc = NewLocals])

(***************************************************************************)
(* LogManager.query_logs.  ans holds the answers of the cloud to the calls *)
(* of this invocation; has_group: the settings name a device group.        *)
(***************************************************************************)
Outcomes == {"ok", "auth", "fail"}

DeviceLists == {[i \in 1..n |-> i] : n \in 0..MaxDevices}

Answers ==
    [list : Outcomes, devices : DeviceLists, create : Outcomes, open : Outcomes,
     attach : [1..MaxDevices -> Outcomes]]

NoAnswer ==
    [list |-> "ok", devices |-> <<>>, create |-> "ok", open |-> "ok",
     attach |-> [i \in 1..MaxDevices |-> "ok"]]

ret_none(e) == [e EXCEPT !.ret = RetNone]

\* the attach loop, from device i on; the result has ret = RetNone, or is e
RECURSIVE attach_devices(_, _, _)
attach_devices(e, ans, i) ==
    IF i > Len(e.lm.devices) THEN [e EXCEPT !.ret = RetLogs(<<>>)]
    ELSE LET e1 == cloud_call(e, "attach_device_to_log_stream", ans.attach[i]) IN
         IF ans.attach[i] # "ok"
         THEN ret_none(LogManager_check_imp_error(e1, ans.attach[i]))
         ELSE attach_devices(e1, ans, i + 1)

\* lines 2452-2493: create the stream, open it, attach the devices.
\* open_log_stream (lines 643-662) returns None for socket.timeout and
\* HTTPError; any other error of urlopen (URLError, a connection that is
\* reset) is the answer "raise" and leaves query_logs as an exception.
open_stream(e, ans) ==
    LET e0 == cloud_call(e, "create_log_stream", ans.create) IN
    IF ans.create # "ok" THEN ret_none(LogManager_check_imp_error(e0, ans.create))
    ELSE
    LET id == e0.nextStream + 1
        e1 == cloud_call([e0 EXCEPT !.nextStream = id, !.created = @ \cup {id},
                                    !.lm.poll_url = id],
                         "open_log_stream", ans.open)
    IN
    IF ans.open = "raise" THEN [e1 EXCEPT !.exc = TRUE]
    ELSE IF ans.open # "ok" THEN ret_none([e1 EXCEPT !.lm.sock = NoSock])
    ELSE
    LET e2 == [e1 EXCEPT !.lm.sock = [id |-> id, fp |-> TRUE],
                         !.opened = @ \cup {id},
                         !.wire = [NoWire EXCEPT !.since = e1.now]]
        e3 == attach_devices(e2, ans, 1)
    IN
    IF e3.ret.none THEN e3
    ELSE write_to_console([e3 EXCEPT !.lm.state = POLL],
                          STR_MESSAGE_LOG_STREAM_STARTED, TRUE)

\* query_logs without the test of the length of the device list
query_logs_any_devices(e, has_group, ans) ==
    IF e.lm.sock # NoSock /\ e.lm.sock.fp THEN __read_logs(e)
    ELSE IF ~has_group THEN ret_none(e)
    ELSE IF e.lm.poll_url = NoId
    THEN LET e1 == cloud_call(e, "list_devices", ans.list) IN
         IF ans.list # "ok" THEN ret_none(LogManager_check_imp_error(e1, ans.list))
         ELSE open_stream([e1 EXCEPT !.lm.devices = ans.devices], ans)
    ELSE open_stream(e, ans)

query_logs(e, has_group, ans) ==
    IF e.lm.sock # NoSock /\ e.lm.sock.fp THEN __read_logs(e)
    ELSE IF ~has_group THEN ret_none(e)
    ELSE IF e.lm.poll_url = NoId
    THEN LET e1 == cloud_call(e, "list_devices", ans.list) IN
         IF ans.list # "ok" THEN ret_none(LogManager_check_imp_error(e1, ans.list))
         ELSE IF Len(ans.devices) = 0
         THEN ret_none(write_to_console(e1, STR_MESSAGE_ASSIGN_DEVICE, TRUE))
         ELSE open_stream([e1 EXCEPT !.lm.devices = ans.devices], ans)
    ELSE open_stream(e, ans)

(***************************************************************************)
(* LogManager.update_logs and its callback __update_logs                   *)
(***************************************************************************)
logs_are_equal(first, second) == first = second

\* the first loop without its "i += 1": the record found is shown again
RECURSIVE find_shown_again(_, _, _)
find_shown_again(logs_list, last_shown_log, i) ==
    IF i > 0
    THEN IF last_shown_log # NoLog /\ logs_are_equal(last_shown_log, logs_list[i])
         THEN i - 1
         ELSE find_shown_again(logs_list, last_shown_log, i - 1)
    ELSE i

\* the first loop of __update_logs, i as in the code (0-based)
RECURSIVE find_shown(_, _, _)
find_shown(logs_list, last_shown_log, i) ==
    IF i > 0
    THEN IF last_shown_log # NoLog /\ logs_are_equal(last_shown_log, logs_list[i])
         THEN i
         ELSE find_shown(logs_list, last_shown_log, i - 1)
    ELSE i

\* the second loop of __update_logs, i as in the code (0-based)
RECURSIVE show_logs(_, _, _)
show_logs(e, logs_list, i) ==
    IF e.exc \/ i >= Len(logs_list) THEN e
    ELSE LET log == logs_list[i + 1] IN
         IF log = NoLog THEN show_logs(e, logs_list, i + 1)
         ELSE LET e1 == write_to_console(e, log, FALSE) IN
              IF e1.exc THEN e1
              ELSE show_logs([e1 EXCEPT !.lm.last_shown_log = log], logs_list, i + 1)

\* __update_logs without the reset() of "if not logs_json"
after_query_without_reset(e) ==
    IF e.exc \/ e.blocked THEN e
    ELSE IF e.ret.none
    THEN [e EXCEPT !.lm.update_log_started = FALSE]
    ELSE LET logs_list == e.ret.logs
             e1 == show_logs(e, logs_list,
                             find_shown(logs_list, e.lm.last_shown_log, Len(logs_list)))
         IN IF e1.exc THEN e1 ELSE [e1 EXCEPT !.lm.update_log_started = FALSE]

\* __update_logs after query_logs has returned (or raised, or is waiting)
after_query(e) ==
    IF e.exc \/ e.blocked THEN e
    ELSE IF e.ret.none
    THEN [reset(e, FALSE) EXCEPT !.lm.update_log_started = FALSE]
    ELSE LET logs_list == e.ret.logs
             e1 == show_logs(e, logs_list,
                             find_shown(logs_list, e.lm.last_shown_log, Len(logs_list)))
         IN IF e1.exc THEN e1 ELSE [e1 EXCEPT !.lm.update_log_started = FALSE]

\* LogManager.update_logs: queue the callback unless one is running
update_logs(e) ==
    IF ~e.lm.update_log_started
    THEN [e EXCEPT !.sched = Append(@, "__update_logs")]
    ELSE e

(***************************************************************************)
(* update_log_windows: one pass over project_env_map, which holds the Env  *)
(* of the project and, in the specification of two projects, a second Env. *)
(***************************************************************************)
\* update_log_windows that starts an IDLE session in the periodic call too
update_log_windows_always_starts(e, in_map, is_project, restart_timer) ==
    IF ~in_map THEN [e |-> e, in_map |-> FALSE, has_logs |-> FALSE]
    ELSE IF ~is_project THEN [e |-> e, in_map |-> FALSE, has_logs |-> FALSE]
    ELSE IF e.lm.state = POLL
    THEN [e |-> update_logs(e), in_map |-> TRUE, has_logs |-> TRUE]
    ELSE IF e.lm.state = IDLE
    THEN [e |-> update_logs(start(e)), in_map |-> TRUE, has_logs |-> TRUE]
    ELSE [e |-> e, in_map |-> TRUE, has_logs |-> FALSE]

\* the loop body for the project; the result also says whether the Env stays
\* in project_env_map and the value of has_logs
update_log_windows(e, in_map, is_project, restart_timer) ==
    IF ~in_map THEN [e |-> e, in_map |-> FALSE, has_logs |-> FALSE]
    ELSE IF ~is_project THEN [e |-> e, in_map |-> FALSE, has_logs |-> FALSE]
    ELSE IF e.lm.state = POLL
    THEN [e |-> update_logs(e), in_map |-> TRUE, has_logs |-> TRUE]
    ELSE IF e.lm.state = IDLE /\ ~restart_timer
    THEN [e |-> update_logs(start(e)), in_map |-> TRUE, has_logs |-> TRUE]
    ELSE [e |-> e, in_map |-> TRUE, has_logs |-> FALSE]

\* the Env of a project that is not in project_env_map
NoPeer == [in_map |-> FALSE, lm |-> LogManagerInit]

\* the loop body for the Env of the second project, whose window stays a
\* project window; its __update_logs goes on the same queue
others(e, restart_timer) ==
    IF ~e.peer.in_map THEN [e |-> e, has_logs |-> FALSE]
    ELSE LET r == update_log_windows([e EXCEPT !.lm = e.peer.lm, !.sched = <<>>],
                                     TRUE, TRUE, restart_timer)
         IN [e |-> [e EXCEPT !.peer.lm = r.e.lm,
                             !.sched = @ \o [i \in DOMAIN r.e.sched |->
                                                "peer.__update_logs"]],
             has_logs |-> r.has_logs]

\* a finally block that restarts the timer whatever restart_timer is
finally_always(e, restart_timer) == [e EXCEPT !.timers = @ + 1]

\* the finally block, which runs whether or not the loop raised
finally(e, restart_timer) ==
    IF restart_timer THEN [e EXCEPT !.timers = @ + 1] ELSE e

\* the delay the finally block gives to sublime.set_timeout
next_period(has_logs) ==
    IF has_logs THEN PL_LOGS_UPDATE_SHORT_PERIOD ELSE PL_LOGS_UPDATE_LONG_PERIOD

(***************************************************************************)
(* BaseElectricImpCommand and the commands.  cfg holds what the checks     *)
(* read: legacy (keys of the old plug-in version are present), node,       *)
(* builder (the saved path exists), node_found, builder_found (the path of *)
(* NodeLocator exists), url, token, product, group, deployment.  token is  *)
(* "none" (no access token set), "cleared" (its value is None), "expired"  *)
(* or "valid".  A nested window.run_command is a frame pushed on stack;    *)
(* the frame on top runs next and nothing else runs before stack is empty. *)
(***************************************************************************)
None == "none"

\* the list "commands" of BaseElectricImpCommand.run
commands ==
    <<"imp_check_old_version", "imp_check_nodejs_path", "imp_check_builder_path",
      "imp_check_cloud_url", "imp_auth", "imp_refresh_token",
      "imp_create_new_product", "imp_create_new_device_group", "imp_load_code">>

\* the commands the user starts
Targets == {"imp_build_and_run", "imp_show_console", "imp_create_new_product"}

CommandNames == {commands[j] : j \in DOMAIN commands} \cup Targets

\* the answers of the cloud: no error, or the code of ImpRequest
Clouds == {"ok", "auth", "wrong", "fail"}

ImpCheckOldVersionCommand_check(c) == ~c.legacy
ImpCheckNodejsPathCommand_check(c) == c.node
ImpCheckBuilderPathCommand_check(c) == c.builder
ImpCheckCloudUrlCommand_check(c) == c.url
ImpAuthCommand_check(c) == c.token # None
ImpRefreshTokenCommand_check(c) == c.token = "valid"
ImpCreateNewProductCommand_check(c) == c.product
ImpCreateNewDeviceGroupCommand_check(c) == c.group
ImpLoadCodeCommand_check(c) == c.deployment

\* x["method"](self) for the entry j of the list
check(j, c) ==
    CASE j = 1 -> ImpCheckOldVersionCommand_check(c)
      [] j = 2 -> ImpCheckNodejsPathCommand_check(c)
      [] j = 3 -> ImpCheckBuilderPathCommand_check(c)
      [] j = 4 -> ImpCheckCloudUrlCommand_check(c)
      [] j = 5 -> ImpAuthCommand_check(c)
      [] j = 6 -> ImpRefreshTokenCommand_check(c)
      [] j = 7 -> ImpCreateNewProductCommand_check(c)
      [] j = 8 -> ImpCreateNewDeviceGroupCommand_check(c)
      [] OTHER -> ImpLoadCodeCommand_check(c)

\* BaseElectricImpCommand.init_env_and_settings
init_env_and_settings(e) ==
    LET e1 == IF e.registry THEN e
              ELSE [e EXCEPT !.registry = TRUE, !.lm = LogManagerInit,
                             !.terminal = FALSE]
        e2 == IF ~e1.cfg.node /\ e1.cfg.node_found
              THEN [e1 EXCEPT !.cfg.node = TRUE, !.wrote = @ \cup {"node"}] ELSE e1
    IN IF ~e2.cfg.builder /\ e2.cfg.builder_found
       THEN [e2 EXCEPT !.cfg.builder = TRUE, !.wrote = @ \cup {"builder"}] ELSE e2

\* UIManager.create_new_console
create_new_console(e) ==
    [e EXCEPT !.terminal = TRUE, !.lm.poll_url = NoId, !.lm.last_shown_log = NoLog]

\* UIManager.init_tty
init_tty(e) == IF ~e.terminal THEN create_new_console(e) ELSE e

\* window.run_command(cmd, {"cmd_on_complete": cont}): the call is entered next
run_command(e, cmd, cont) ==
    [e EXCEPT !.stack = <<[k |-> "run", cmd |-> cmd, cont |-> cont]>> \o @,
              !.invoked = Append(@, [cmd |-> cmd, cont |-> cont])]

\* on_action_complete without the test of "canceled"
on_action_complete_after_cancel(e, cmd, canceled) ==
    IF e.coc[cmd] # None
    THEN run_command(e, e.coc[cmd], None)
    ELSE [e EXCEPT !.canceled = @ \/ canceled]

\* BaseElectricImpCommand.on_action_complete
on_action_complete(e, cmd, canceled) ==
    IF ~canceled /\ e.coc[cmd] # None
    THEN run_command(e, e.coc[cmd], None)
    ELSE [e EXCEPT !.canceled = @ \/ canceled]

\* sublime.ok_cancel_dialog answered by the user
dialog(e, ok) == [e EXCEPT !.asked = @ + 1, !.declined = @ \/ ~ok]

\* window.show_input_panel / show_quick_panel: the panel replaces the open one
open_panel(e, p) == [e EXCEPT !.panel = p]

\* update_auth_settings(EI_ACCESS_TOKEN, ...)
set_token(e, t) == [e EXCEPT !.cfg.token = t, !.wrote = @ \cup {"token"}]

\* update_settings(key, ...) of the settings the checks read
update_settings(e, key, v) ==
    [e EXCEPT !.cfg = [@ EXCEPT ![key] = v], !.wrote = @ \cup {key}]

\* BaseElectricImpCommand.check_imp_error; cie is its result
check_imp_error(e, cmd, error, str_failed, should_retry, ok) ==
    IF error = "ok" THEN [e EXCEPT !.cie = FALSE]
    ELSE
    LET e0 == [e EXCEPT !.cie = TRUE, !.failed = TRUE]
        again(x) == run_command(x, cmd, x.coc[cmd])
    IN
    IF error = "auth"
    THEN IF e0.cfg.token = None /\ ~should_retry THEN e0
         ELSE IF e0.cfg.token = None /\ ~ok THEN dialog(e0, FALSE)
         ELSE LET e1 == IF e0.cfg.token = None THEN dialog(e0, TRUE)
                        ELSE set_token(e0, "cleared")
              IN run_command(e1, IF e1.coc[cmd] # None THEN e1.coc[cmd] ELSE cmd, None)
    ELSE IF error = "wrong"
    THEN IF should_retry
         THEN IF ok THEN again(dialog(e0, TRUE)) ELSE dialog(e0, FALSE)
         ELSE e0
    ELSE IF error = "fail"
    THEN IF should_retry /\ str_failed
         THEN IF ok THEN again(dialog(e0, TRUE)) ELSE dialog(e0, FALSE)
         ELSE e0
    ELSE e0

\* ImpCheckOldVersionCommand.action
ImpCheckOldVersionCommand_action(e, inp) ==
    LET cmd == "imp_check_old_version"
        e1 == dialog(e, inp.ok)
    IN IF ~inp.ok THEN on_action_complete(e1, cmd, TRUE)
       ELSE on_action_complete(
                IF e1.cfg.legacy THEN update_settings(e1, "legacy", FALSE) ELSE e1,
                cmd, FALSE)

\* ImpCheckNodejsPathCommand.action
ImpCheckNodejsPathCommand_action(e, inp, skip_dialog) ==
    IF ~skip_dialog /\ ~inp.ok
    THEN on_action_complete(dialog(e, FALSE), "imp_check_nodejs_path", TRUE)
    ELSE open_panel(IF skip_dialog THEN e ELSE dialog(e, TRUE), "node_path")

\* ImpCheckNodejsPathCommand.on_node_js_path_provided
on_node_js_path_provided(e, inp) ==
    LET cmd == "imp_check_nodejs_path" IN
    IF inp.valid
    THEN on_action_complete(update_settings(e, "node", TRUE), cmd, FALSE)
    ELSE LET e1 == dialog(e, inp.ok)
             e2 == IF inp.ok THEN ImpCheckNodejsPathCommand_action(e1, inp, TRUE)
                   ELSE e1
         IN on_action_complete(e2, cmd, FALSE)

\* ImpCheckBuilderPathCommand.action: "self.callback = callback" raises NameError
ImpCheckBuilderPathCommand_action(e, inp) ==
    IF ~inp.ok
    THEN on_action_complete(dialog(e, FALSE), "imp_check_builder_path", TRUE)
    ELSE [dialog(e, TRUE) EXCEPT !.exc = TRUE]

\* ImpCheckCloudUrlCommand.action
ImpCheckCloudUrlCommand_action(e) == open_panel(e, "cloud_url")

\* ImpCheckCloudUrlCommand.on_url_provided
on_url_provided(e, inp) ==
    IF ~inp.valid
    THEN IF ~inp.ok THEN dialog(e, FALSE)
         ELSE open_panel(dialog(e, TRUE), "cloud_url")
    ELSE on_action_complete(update_settings(e, "url", TRUE),
                            "imp_check_cloud_url", FALSE)

\* ImpAuthCommand.action
ImpAuthCommand_action(e, inp) ==
    IF ~inp.ok THEN dialog(e, FALSE) ELSE open_panel(dialog(e, TRUE), "user_id")

\* ImpAuthCommand.on_user_id_provided: the user id, then the password
on_user_id_provided(e, password) ==
    IF ~password THEN open_panel(e, "password")
    ELSE [e EXCEPT !.sched = Append(@, "request_credentials")]

\* ImpAuthCommand.request_credentials and on_login_complete
request_credentials(e, inp) ==
    LET cmd == "imp_auth"
        e1 == check_imp_error(request(e, "auth"), cmd, inp.cloud, TRUE, TRUE, inp.ok2)
    IN IF e1.cie THEN e1
       ELSE on_action_complete(set_token(e1, "valid"), cmd, FALSE)

\* the rest of ImpRefreshTokenCommand.action when check_imp_error returned True
refresh_failed(e) ==
    on_action_complete(set_token(e, None), "imp_refresh_token", FALSE)

\* ImpRefreshTokenCommand.action
ImpRefreshTokenCommand_action(e, inp) ==
    LET cmd == "imp_refresh_token"
        e0 == request(e, "refresh_access_token")
        e1 == check_imp_error(e0, cmd, inp.cloud, FALSE, FALSE, inp.ok2)
    IN IF ~e1.cie THEN on_action_complete(set_token(e1, "valid"), cmd, FALSE)
       ELSE IF Len(e1.stack) > Len(e0.stack)
       THEN \* the nested command runs first, the rest of action() after it
            [e1 EXCEPT !.stack = <<Head(@)>>
                          \o <<[k |-> "refresh_failed", cmd |-> cmd, cont |-> None]>>
                          \o Tail(@)]
       ELSE refresh_failed(e1)

\* ImpCreateNewProductCommand.action
ImpCreateNewProductCommand_action(e) ==
    [e EXCEPT !.sched = Append(@, "select_existing_product")]

\* ImpCreateNewProductCommand.select_existing_product
select_existing_product(e, inp) ==
    LET cmd == "imp_create_new_product"
        e1 == check_imp_error(request(e, "account"), cmd, inp.cloud, TRUE, TRUE, inp.ok2)
        e2 == check_imp_error(request(e1, "list_products"), cmd, inp.cloud2, TRUE,
                              TRUE, inp.ok2)
    IN IF e1.cie THEN e1
       ELSE IF e2.cie THEN e2
       ELSE open_panel(e2, "product_list")

\* ImpCreateNewProductCommand.on_create_new_product
on_create_new_product(e, inp) ==
    IF ~inp.ok THEN dialog(e, FALSE) ELSE open_panel(dialog(e, TRUE), "product_name")

\* ImpCreateNewProductCommand.select_collaborator
select_collaborator(e, inp) ==
    LET e1 == check_imp_error(request(e, "collaborators"), "imp_create_new_product",
                              inp.cloud, TRUE, TRUE, inp.ok2)
    IN IF e1.cie THEN e1 ELSE open_panel(e1, "collaborators")

\* ImpCreateNewProductCommand.on_product_name_provided
on_product_name_provided(e, inp) ==
    IF inp.index = "invalid" THEN e
    ELSE IF inp.index = "new" THEN on_create_new_product(e, inp)
    ELSE IF inp.index = "other" THEN select_collaborator(e, inp)
    ELSE on_action_complete(
             update_settings(update_settings(e, "product", TRUE), "group", FALSE),
             "imp_create_new_product", FALSE)

\* ImpCreateNewProductCommand.on_collaborator_selected and show_product_list
on_collaborator_selected(e, inp) ==
    IF inp.index = "invalid" THEN e ELSE open_panel(e, "product_list")

\* ImpCreateNewProductCommand.on_new_product_name_provided_async
on_new_product_name_provided_async(e) ==
    [e EXCEPT !.sched = Append(@, "on_new_product_name_provided")]

\* ImpCreateNewProductCommand.on_new_product_name_provided
on_new_product_name_provided(e, inp) ==
    LET cmd == "imp_create_new_product"
        e1 == check_imp_error(request(e, "create_product"), cmd, inp.cloud, TRUE,
                              TRUE, inp.ok2)
    IN IF e1.cie THEN e1
       ELSE on_action_complete(
                update_settings(update_settings(e1, "product", TRUE), "group", FALSE),
                cmd, FALSE)

\* ImpCreateNewDeviceGroupCommand.action
ImpCreateNewDeviceGroupCommand_action(e) ==
    [e EXCEPT !.sched = Append(@, "select_device_group")]

\* ImpCreateNewDeviceGroupCommand.select_device_group
select_device_group(e, inp) ==
    LET e1 == check_imp_error(request(e, "list_device_groups"),
                              "imp_create_new_device_group", inp.cloud, TRUE, TRUE,
                              inp.ok2)
    IN IF e1.cie THEN e1 ELSE open_panel(e1, "group_list")

\* ImpCreateNewDeviceGroupCommand.on_device_group_name_provided_async
on_device_group_name_provided_async(e, inp) ==
    [e EXCEPT !.sched = Append(@, "on_device_group_name_provided:" \o inp.index)]

\* ImpCreateNewDeviceGroupCommand.on_create_new_device_group
on_create_new_device_group(e, inp) ==
    IF ~inp.ok THEN dialog(e, FALSE) ELSE open_panel(dialog(e, TRUE), "group_name")

\* ImpCreateNewDeviceGroupCommand.on_device_group_name_provided
on_device_group_name_provided(e, index, inp) ==
    LET cmd == "imp_create_new_device_group" IN
    IF index = "invalid" THEN on_action_complete(e, cmd, TRUE)
    ELSE IF index = "new" THEN on_create_new_device_group(e, inp)
    ELSE on_action_complete(
             update_settings(update_settings(e, "group", TRUE), "deployment", FALSE),
             cmd, FALSE)

\* ImpCreateNewDeviceGroupCommand.on_new_device_group_name_provided
on_new_device_group_name_provided(e, inp) ==
    LET cmd == "imp_create_new_device_group"
        e1 == check_imp_error(request(e, "create_device_group"), cmd, inp.cloud,
                              TRUE, TRUE, inp.ok2)
    IN IF e1.cie THEN e1
       ELSE on_action_complete(
                update_settings(update_settings(e1, "group", TRUE), "deployment", TRUE),
                cmd, FALSE)

\* ImpLoadCodeCommand.action; inp.valid: the group has a current deployment
ImpLoadCodeCommand_action(e, inp) ==
    LET cmd == "imp_load_code"
        e0 == dialog(e, inp.ok)
        e1 == check_imp_error(request(e0, "get_device_group"), cmd, inp.cloud, TRUE,
                              TRUE, inp.ok2)
        e2 == check_imp_error(request(e1, "get_deployment"), cmd, inp.cloud2, TRUE,
                              TRUE, inp.ok2)
    IN IF ~inp.ok
       THEN on_action_complete(update_settings(e0, "deployment", TRUE), cmd, FALSE)
       ELSE IF e1.cie THEN e1
       ELSE IF ~inp.valid
       THEN on_action_complete(update_settings(e1, "deployment", TRUE), cmd, FALSE)
       ELSE IF e2.cie THEN e2
       ELSE on_action_complete(update_settings(e2, "deployment", TRUE), cmd, FALSE)

\* ImpShowConsoleCommand.action
ImpShowConsoleCommand_action(e) ==
    LET cmd == "imp_show_console" IN
    IF e.coc[cmd] = "auth"
    THEN LET e1 == [e EXCEPT !.coc[cmd] = None]
             e2 == IF e1.cfg.token # None THEN set_token(e1, "cleared") ELSE e1
         IN run_command(e2, cmd, None)
    ELSE [e EXCEPT !.sched = Append(@, "update_log_windows(False)")]

\* BaseElectricImpCommand.print_to_tty
print_to_tty(e, text) ==
    IF e.terminal
    THEN [e EXCEPT !.written = Append(@, [device |-> "", type |-> "tty",
                                         message |-> <<text>>])]
    ELSE e

\* ImpBuildAndRunCommand.handle_deployment
handle_deployment(e, inp) ==
    LET cmd == "imp_build_and_run"
        r == update_log_windows(e, e.registry, TRUE, FALSE)
        e1 == finally(others([r.e EXCEPT !.registry = r.in_map], FALSE).e, FALSE)
    IN
    IF inp.cloud = "ok"
    THEN LET e2 == print_to_tty(print_to_tty(
                       update_settings(e1, "deployment", TRUE),
                       "STR_STATUS_REVISION_UPLOADED"),
                       "STR_DEVICE_GROUP_CONDITIONAL_RESTART")
         IN check_imp_error(request(e2, "conditional_restart"), cmd, inp.cloud2,
                            TRUE, TRUE, inp.ok2)
    ELSE IF inp.cloud = "auth"
    THEN check_imp_error([e1 EXCEPT !.failed = TRUE], cmd, "auth", FALSE, TRUE, inp.ok2)
    ELSE IF inp.cloud = "compile"
    THEN print_to_tty([e1 EXCEPT !.failed = TRUE], "STR_ERR_DEPLOY_FAILED_WITH_ERRORS")
    ELSE print_to_tty([e1 EXCEPT !.failed = TRUE], "STR_FAILED_CODE_DEPLOY")

\* ImpBuildAndRunCommand.action; inp.valid: the preprocessor gave both files.
\* on_action_complete() follows the nested command of handle_deployment: the
\* command is started without cmd_on_complete only, so it does nothing then too.
ImpBuildAndRunCommand_action(e, inp) ==
    IF ~inp.valid THEN e
    ELSE on_action_complete(handle_deployment(request(e, "create_deployment"), inp),
                            "imp_build_and_run", FALSE)

\* self.action() of the command cmd
action(e0, cmd, inp) ==
    LET e == [e0 EXCEPT !.acted = Append(@, cmd)] IN
    CASE cmd = "imp_check_old_version" -> ImpCheckOldVersionCommand_action(e, inp)
      [] cmd = "imp_check_nodejs_path" -> ImpCheckNodejsPathCommand_action(e, inp, FALSE)
      [] cmd = "imp_check_builder_path" -> ImpCheckBuilderPathCommand_action(e, inp)
      [] cmd = "imp_check_cloud_url" -> ImpCheckCloudUrlCommand_action(e)
      [] cmd = "imp_auth" -> ImpAuthCommand_action(e, inp)
      [] cmd = "imp_refresh_token" -> ImpRefreshTokenCommand_action(e, inp)
      [] cmd = "imp_create_new_product" -> ImpCreateNewProductCommand_action(e)
      [] cmd = "imp_create_new_device_group" -> ImpCreateNewDeviceGroupCommand_action(e)
      [] cmd = "imp_load_code" -> ImpLoadCodeCommand_action(e, inp)
      [] cmd = "imp_show_console" -> ImpShowConsoleCommand_action(e)
      [] OTHER -> ImpBuildAndRunCommand_action(e, inp)

\* the loop of run with remediations invoked without "cmd_on_complete"
RECURSIVE chain_without_continuation(_, _, _, _)
chain_without_continuation(e, cmd, j, inp) ==
    IF j > Len(commands) THEN action(e, cmd, inp)
    ELSE IF commands[j] = cmd THEN action(e, cmd, inp)
    ELSE LET e1 == [e EXCEPT !.checks = Append(@, j)] IN
         IF ~check(j, e1.cfg) THEN run_command(e1, commands[j], None)
         ELSE chain_without_continuation(e1, cmd, j + 1, inp)

\* the loop of run without "if x["command"] == self.name(): break"
RECURSIVE chain_past_target(_, _, _, _)
chain_past_target(e, cmd, j, inp) ==
    IF j > Len(commands) THEN action(e, cmd, inp)
    ELSE LET e1 == [e EXCEPT !.checks = Append(@, j)] IN
         IF commands[j] # cmd /\ ~check(j, e1.cfg)
         THEN run_command(e1, commands[j], cmd)
         ELSE chain_past_target(e1, cmd, j + 1, inp)

\* the loop over the list "commands" in run, from the entry j on
RECURSIVE chain(_, _, _, _)
chain(e, cmd, j, inp) ==
    IF j > Len(commands) THEN action(e, cmd, inp)
    ELSE IF commands[j] = cmd THEN action(e, cmd, inp)
    ELSE LET e1 == [e EXCEPT !.checks = Append(@, j)] IN
         IF ~check(j, e1.cfg) THEN run_command(e1, commands[j], cmd)
         ELSE chain(e1, cmd, j + 1, inp)

\* run without "if cmd_on_complete == self.name(): return"
run_without_guard(e, cmd, cmd_on_complete, inp) ==
    LET e1 == init_tty(init_env_and_settings(e))
        e2 == [e1 EXCEPT !.coc[cmd] = cmd_on_complete,
                         !.unmet = {j \in DOMAIN commands : ~check(j, e1.cfg)}]
    IN IF cmd_on_complete # None
       THEN action(e2, cmd, inp)
       ELSE chain(e2, cmd, 1, inp)

\* run that goes through the list whatever cmd_on_complete is
run_always_checks(e, cmd, cmd_on_complete, inp) ==
    LET e1 == init_tty(init_env_and_settings(e))
        e2 == [e1 EXCEPT !.coc[cmd] = cmd_on_complete,
                         !.unmet = {j \in DOMAIN commands : ~check(j, e1.cfg)}]
    IN IF cmd_on_complete = cmd THEN e2 ELSE chain(e2, cmd, 1, inp)

\* BaseElectricImpCommand.run
run(e, cmd, cmd_on_complete, inp) ==
    LET e1 == init_tty(init_env_and_settings(e))
        e2 == [e1 EXCEPT !.coc[cmd] = cmd_on_complete,
                         !.unmet = {j \in DOMAIN commands : ~check(j, e1.cfg)}]
    IN IF cmd_on_complete # None
       THEN IF cmd_on_complete = cmd THEN e2 ELSE action(e2, cmd, inp)
       ELSE chain(e2, cmd, 1, inp)

(***************************************************************************)
(* State machine                                                           *)
(***************************************************************************)
Here ==
    Ctx(lm, wire, opened, nextStream, now,
        [registry |-> registry, terminal |-> terminal, cfg |-> cfg, coc |-> coc,
         stack |-> stack, panel |-> panel, code |-> code, peer |-> peer])

NoLast ==
    [op |-> "init", state |-> IDLE, written |-> <<>>, sched |-> <<>>, exc |-> FALSE,
     resets |-> 0, closes |-> 0, pre |-> LogManagerInit, snap |-> LogManagerInit,
     closedRead |-> FALSE, created |-> {}, silent |-> FALSE, denied |-> FALSE,
     stale |-> FALSE]

\* the session polls a connection on which nothing has arrived for more than
\* PL_KEEP_ALIVE_TIMEOUT seconds
Silent ==
    /\ lm.state = POLL
    /\ lm.sock # NoSock /\ lm.sock.fp
    /\ wire.buf = <<>> /\ ~wire.eof
    /\ now - wire.since > PL_KEEP_ALIVE_TIMEOUT

\* what handler op, started with the session in lm, has done when it ends as e
Done(op, e) ==
    [op |-> op, state |-> lm.state, written |-> e.written, sched |-> e.sched,
     exc |-> e.exc, resets |-> e.resets, closes |-> e.closes,
     pre |-> IF e.resets > 0 THEN e.pre ELSE LogManagerInit,
     snap |-> IF e.resets > 0 THEN e.snap ELSE LogManagerInit,
     closedRead |-> e.closedRead, created |-> e.created,
     silent |-> op = "__update_logs" /\ Silent, denied |-> e.denied,
     stale |-> op = "__update_logs" /\ drn.token # cfg.token]

NoEv ==
    [op |-> "init", cmd |-> None, cont |-> None, unmet |-> {}, checks |-> <<>>,
     invoked |-> <<>>, acted |-> <<>>, canceled |-> FALSE, declined |-> FALSE,
     failed |-> FALSE, wrote |-> {}, asked |-> 0, requests |-> <<>>, exc |-> FALSE,
     depth |-> 0, auto |-> 0, started |-> 0]

\* the refresh requests among the requests of a step
Refreshes(e) ==
    Cardinality({i \in DOMAIN e.requests : e.requests[i] = "refresh_access_token"})

\* what the step op of the command cmd has done when it ends as e; auto counts
\* the refresh requests since the user last did something
Event(op, cmd, cont, e, user) ==
    [op |-> op, cmd |-> cmd, cont |-> cont, unmet |-> e.unmet, checks |-> e.checks,
     invoked |-> e.invoked, acted |-> e.acted, canceled |-> e.canceled,
     declined |-> e.declined, failed |-> e.failed, wrote |-> e.wrote,
     asked |-> e.asked, requests |-> e.requests, exc |-> e.exc,
     depth |-> Len(stack),
     auto |-> (IF user \/ e.asked > 0 THEN 0 ELSE ev.auto) + Refreshes(e),
     started |-> ev.started]

\* ev after a handler that is no step of a command
Quiet == [NoEv EXCEPT !.auto = ev.auto, !.started = ev.started]

\* token: the access token query_logs has read (line 2430) and sends
Idle == [pc |-> "idle", loc |-> NewLocals, token |-> None]

Satisfied ==
    [legacy |-> FALSE, node |-> TRUE, builder |-> TRUE, node_found |-> TRUE,
     builder_found |-> TRUE, url |-> TRUE, token |-> "valid", product |-> TRUE,
     group |-> TRUE, deployment |-> TRUE]

\* the handler ends as e: its effects on the session, the stream and the queue
Commit(op, e, q) ==
    /\ Len(q) + Len(e.sched) <= MaxQueue
    /\ lm' = e.lm
    /\ wire' = e.wire
    /\ opened' = e.opened
    /\ nextStream' = e.nextStream
    /\ asyncq' = q \o e.sched
    /\ registry' = e.registry
    /\ peer' = e.peer
    /\ terminal' = e.terminal
    /\ last' = Done(op, e)

\* a step of a command ends as e
CommitCmd(op, cmd, cont, e, q, user) ==
    /\ Len(e.stack) <= MaxDepth
    /\ Event(op, cmd, cont, e, user).auto <= MaxAuto
    /\ Commit(op, e, q)
    /\ cfg' = e.cfg
    /\ coc' = e.coc
    /\ stack' = e.stack
    /\ panel' = e.panel
    /\ ev' = Event(op, cmd, cont, e, user)
    /\ timers' = timers + e.timers
    /\ UNCHANGED <<drn, now, project_ok, period, reads, feed,
                   code>>

InitLog ==
    /\ lm = LogManagerInit
    /\ wire = NoWire
    /\ opened = {}
    /\ nextStream = 0
    /\ asyncq = <<>>
    /\ drn = Idle
    /\ now = 0
    /\ registry = FALSE
    /\ project_ok = TRUE
    /\ period = PL_LOGS_UPDATE_LONG_PERIOD
    /\ timers = 1
    /\ peer = NoPeer
    /\ last = NoLast
    /\ terminal = FALSE
    /\ coc = [c \in CommandNames |-> None]
    /\ stack = <<>>
    /\ panel = None
    /\ ev = NoEv
    /\ reads = <<>>
    /\ feed = NoFeed
    /\ code = NoCode

Init == InitLog /\ cfg = Satisfied

\* update_log_windows(restart_timer) on the context
UpdateLogWindows(restart_timer) ==
    LET r == update_log_windows(Here, registry, project_ok, restart_timer)
        o == others([r.e EXCEPT !.registry = r.in_map], restart_timer)
    IN [e |-> finally(o.e, restart_timer), has_logs |-> r.has_logs \/ o.has_logs]

\* the periodic update_log_windows(), on the main thread
Tick ==
    /\ stack = <<>>
    /\ timers > 0
    /\ Commit("tick", UpdateLogWindows(TRUE).e, asyncq)
    /\ period' = next_period(UpdateLogWindows(TRUE).has_logs)
    /\ timers' = timers - 1 + UpdateLogWindows(TRUE).e.timers
    /\ ev' = Quiet
    /\ UNCHANGED <<drn, now, project_ok, cfg, coc, stack, panel, reads, feed,
                   code>>

\* the async thread takes the next callback only when it is free
AsyncNext(task) ==
    /\ stack = <<>>
    /\ drn.pc = "idle"
    /\ Len(asyncq) > 0
    /\ Head(asyncq) = task

\* update_log_windows(False) as a queued callback
AsyncUpdate ==
    /\ AsyncNext("update_log_windows(False)")
    /\ Commit("update_log_windows(False)", UpdateLogWindows(FALSE).e, Tail(asyncq))
    /\ ev' = Quiet
    /\ timers' = timers + UpdateLogWindows(FALSE).e.timers
    /\ UNCHANGED <<drn, now, project_ok, period, cfg, coc, stack, panel, reads, feed,
                   code>>

\* log_manager.reset(is_restart=True) as a queued callback
AsyncReset ==
    /\ AsyncNext("reset(is_restart=True)")
    /\ Commit("reset(is_restart=True)", reset(Here, TRUE), Tail(asyncq))
    /\ ev' = Quiet
    /\ UNCHANGED <<drn, now, project_ok, period, timers, cfg, coc, stack, panel, reads, feed,
                   code>>

\* __update_logs starts: line 2501, up to the read of the access token
DrainBegin ==
    /\ AsyncNext("__update_logs")
    /\ Commit("__update_logs:begin", [Here EXCEPT !.lm.update_log_started = TRUE],
              Tail(asyncq))
    /\ drn' = [pc |-> "run", loc |-> NewLocals, token |-> cfg.token]
    /\ ev' = Quiet
    /\ UNCHANGED <<now, project_ok, period, timers, cfg, coc, stack, panel, reads, feed,
                   code>>

\* the end of a piece of __update_logs
DrainCommit(e) ==
    /\ Commit("__update_logs", e, asyncq)
    /\ drn' = IF e.blocked THEN [pc |-> "blocked", loc |-> e.loc, token |-> drn.token]
               ELSE Idle
    /\ ev' = Quiet
    /\ code' = e.code
    /\ UNCHANGED <<now, project_ok, period, timers, cfg, coc, stack, panel, reads, feed>>

\* the answers the cloud can give to this invocation of query_logs: the answers
\* of the requests it does not send are fixed, a request that carries an access
\* token that is not valid is not granted, and the cloud creates MaxStreams streams
AnswersNow ==
    IF lm.sock # NoSock /\ lm.sock.fp THEN {NoAnswer}
    ELSE {a \in Answers :
            LET usesList == lm.poll_url = NoId
                usesCreate == ~usesList \/ (a.list = "ok" /\ Len(a.devices) > 0)
                usesOpen == usesCreate /\ a.create = "ok"
                usesAttach == usesOpen /\ a.open = "ok"
            IN /\ ~usesList => a.list = "ok"
               /\ (~usesList \/ a.list # "ok") => a.devices = <<>>
               /\ (usesList /\ drn.token # "valid") => a.list # "ok"
               /\ ~usesCreate => a.create = "ok"
               /\ (usesCreate /\ a.create = "ok") =>
                      nextStream < MaxStreams /\ drn.token = "valid"
               /\ ~usesOpen => a.open = "ok"
               /\ ~usesAttach => a.attach = [i \in 1..MaxDevices |-> "ok"]}

\* __update_logs from query_logs on: lines 2503-2528
DrainRun ==
    /\ stack = <<>>
    /\ drn.pc = "run"
    /\ \E a \in AnswersNow : DrainCommit(after_query(query_logs(Here, cfg.group, a)))

\* __update_logs goes on when the blocking read gets a line or the end of stream
DrainResume ==
    /\ drn.pc = "blocked"
    /\ Len(wire.buf) > 0 \/ wire.eof
    /\ DrainCommit(after_query(read_for([Here EXCEPT !.loc = drn.loc])))

(***************************************************************************)
(* What the user and the cloud answer to a handler.  The requests that     *)
(* carry the access token are not granted when the token is not valid.     *)
(***************************************************************************)
Default ==
    [ok |-> TRUE, ok2 |-> TRUE, cloud |-> "ok", cloud2 |-> "ok", valid |-> TRUE,
     index |-> "item"]

Inputs(oks, clouds, clouds2, oks2, valids, indexes) ==
    [ok : oks, ok2 : oks2, cloud : clouds, cloud2 : clouds2, valid : valids,
     index : indexes]

Yes == {TRUE}
Granted == {"ok"}
Item == {"item"}

\* the second request is sent after the first is granted, and the user is asked
\* to try again after an error only
Canonical(S) ==
    {inp \in S :
        /\ inp.cloud # "ok" => inp.cloud2 = "ok"
        /\ ~inp.valid => inp.cloud2 = "ok"
        /\ ~inp.ok2 =>
               \/ inp.cloud \in {"wrong", "fail"}
               \/ inp.cloud2 \in {"wrong", "fail"}
               \/ cfg.token = None /\ "auth" \in {inp.cloud, inp.cloud2}}

Authorized(S) ==
    {inp \in Canonical(S) : cfg.token = "valid" \/ inp.cloud \in {"auth", "fail"}}

ActionInputs(cmd) ==
    CASE cmd \in {"imp_check_old_version", "imp_check_nodejs_path",
                  "imp_check_builder_path", "imp_auth"} ->
             Inputs(BOOLEAN, Granted, Granted, Yes, Yes, Item)
      [] cmd = "imp_refresh_token" -> Inputs(Yes, Clouds, Granted, Yes, Yes, Item)
      [] cmd = "imp_load_code" ->
             {[Default EXCEPT !.ok = FALSE]} \cup
             Authorized(Inputs(Yes, Clouds, Clouds, BOOLEAN, BOOLEAN, Item))
      [] cmd = "imp_build_and_run" ->
             {[Default EXCEPT !.valid = FALSE]} \cup
             Authorized(Inputs(Yes, Clouds \cup {"compile"}, Clouds, BOOLEAN,
                               Yes, Item))
      [] OTHER -> {Default}

PanelInputs(p) ==
    CASE p \in {"node_path", "cloud_url"} ->
             Inputs(BOOLEAN, Granted, Granted, Yes, BOOLEAN, Item)
      [] p = "product_list" ->
             Inputs(Yes, Granted, Granted, Yes, Yes, {"invalid", "item"}) \cup
             Inputs(BOOLEAN, Granted, Granted, Yes, Yes, {"new"}) \cup
             Authorized(Inputs(Yes, Clouds, Granted, BOOLEAN, Yes, {"other"}))
      [] p = "collaborators" ->
             Inputs(Yes, Granted, Granted, Yes, Yes, {"invalid", "item"})
      [] p = "group_list" ->
             Inputs(Yes, Granted, Granted, Yes, Yes, {"invalid", "new", "item"})
      [] p = "group_name" ->
             Authorized(Inputs(Yes, Clouds, Granted, BOOLEAN, Yes, Item))
      [] OTHER -> {Default}

GroupTasks == {"on_device_group_name_provided:" \o i : i \in {"invalid", "new", "item"}}

CommandTasks ==
    {"request_credentials", "select_existing_product", "select_device_group",
     "on_new_product_name_provided", "imp_show_console(auth)"} \cup GroupTasks

TaskInputs(t) ==
    CASE t = "request_credentials" -> Inputs(Yes, Clouds, Granted, BOOLEAN, Yes, Item)
      [] t = "select_existing_product" ->
             Authorized(Inputs(Yes, Clouds, Clouds, BOOLEAN, Yes, Item))
      [] t \in {"select_device_group", "on_new_product_name_provided"} ->
             Authorized(Inputs(Yes, Clouds, Granted, BOOLEAN, Yes, Item))
      [] t = "on_device_group_name_provided:new" ->
             Inputs(BOOLEAN, Granted, Granted, Yes, Yes, Item)
      [] OTHER -> {Default}

\* the callback of the panel p
panel_callback(e, p, inp) ==
    CASE p = "node_path" -> on_node_js_path_provided(e, inp)
      [] p = "cloud_url" -> on_url_provided(e, inp)
      [] p = "user_id" -> on_user_id_provided(e, FALSE)
      [] p = "password" -> on_user_id_provided(e, TRUE)
      [] p = "product_list" -> on_product_name_provided(e, inp)
      [] p = "product_name" -> on_new_product_name_provided_async(e)
      [] p = "collaborators" -> on_collaborator_selected(e, inp)
      [] p = "group_list" -> on_device_group_name_provided_async(e, inp)
      [] OTHER -> on_new_device_group_name_provided(e, inp)

\* the command object a panel belongs to
panel_owner(p) ==
    CASE p = "node_path" -> "imp_check_nodejs_path"
      [] p = "cloud_url" -> "imp_check_cloud_url"
      [] p \in {"user_id", "password"} -> "imp_auth"
      [] p \in {"product_list", "product_name", "collaborators"} ->
             "imp_create_new_product"
      [] OTHER -> "imp_create_new_device_group"

\* the callback t of sublime.set_timeout_async
task_callback(e, t, inp) ==
    CASE t = "request_credentials" -> request_credentials(e, inp)
      [] t = "select_existing_product" -> select_existing_product(e, inp)
      [] t = "select_device_group" -> select_device_group(e, inp)
      [] t = "on_new_product_name_provided" -> on_new_product_name_provided(e, inp)
      [] t = "on_device_group_name_provided:invalid" ->
             on_device_group_name_provided(e, "invalid", inp)
      [] t = "on_device_group_name_provided:new" ->
             on_device_group_name_provided(e, "new", inp)
      [] t = "on_device_group_name_provided:item" ->
             on_device_group_name_provided(e, "item", inp)
      [] OTHER -> run_command(e, "imp_show_console", "auth")

task_owner(t) ==
    CASE t = "request_credentials" -> "imp_auth"
      [] t \in {"select_existing_product", "on_new_product_name_provided"} ->
             "imp_create_new_product"
      [] t = "imp_show_console(auth)" -> "imp_show_console"
      [] OTHER -> "imp_create_new_device_group"

\* the frame on top of the stack runs
frame(e, f, inp) ==
    IF f.k = "run" THEN run(e, f.cmd, f.cont, inp) ELSE refresh_failed(e)

\* the user does something when no command runs and the callbacks that were
\* queued with no delay have run
UserTurn == stack = <<>> /\ asyncq = <<>> /\ drn.pc = "idle"

\* the answers a call of run needs: those of the action, if it is entered
RunInputs(e, cmd, cont) ==
    IF run(e, cmd, cont, Default).acted = <<>> THEN {Default} ELSE ActionInputs(cmd)

FrameInputs(f) ==
    IF f.k = "run" THEN RunInputs([Here EXCEPT !.stack = Tail(@)], f.cmd, f.cont)
    ELSE {Default}

\* the user starts the command target: BaseElectricImpCommand.run
Command ==
    /\ UserTurn
    /\ project_ok
    /\ ev.started < MaxCommands
    /\ \E target \in Targets : \E inp \in RunInputs(Here, target, None) :
          /\ Len(run(Here, target, None, inp).stack) <= MaxDepth
          /\ Refreshes(run(Here, target, None, inp)) <= MaxAuto
          /\ Commit("run", run(Here, target, None, inp), asyncq)
          /\ cfg' = run(Here, target, None, inp).cfg
          /\ coc' = run(Here, target, None, inp).coc
          /\ stack' = run(Here, target, None, inp).stack
          /\ panel' = run(Here, target, None, inp).panel
          /\ ev' = [Event("run", target, None, run(Here, target, None, inp), TRUE)
                       EXCEPT !.started = @ + 1]
          /\ timers' = timers + run(Here, target, None, inp).timers
          /\ UNCHANGED <<drn, now, project_ok, period, reads, feed,
                   code>>

\* the nested run_command on top of the stack runs, or the rest of the caller
Step ==
    /\ stack # <<>>
    /\ \E inp \in FrameInputs(Head(stack)) :
          CommitCmd(Head(stack).k, Head(stack).cmd, Head(stack).cont,
                    frame([Here EXCEPT !.stack = Tail(@)], Head(stack), inp),
                    asyncq, FALSE)

\* the user answers the open panel
AnswerPanel ==
    /\ UserTurn
    /\ panel # None
    /\ \E inp \in PanelInputs(panel) :
          CommitCmd(panel, panel_owner(panel), coc[panel_owner(panel)],
                    panel_callback([Here EXCEPT !.panel = None], panel, inp),
                    asyncq, TRUE)

\* the user closes the open input panel: it has no on_cancel callback
ClosePanel ==
    /\ UserTurn
    /\ panel \in {"node_path", "cloud_url", "user_id", "password", "product_name",
                  "group_name"}
    /\ CommitCmd("close", panel_owner(panel), coc[panel_owner(panel)],
                 [Here EXCEPT !.panel = None], asyncq, TRUE)

\* a callback of a command queued by set_timeout_async runs
AsyncTask ==
    /\ \E t \in CommandTasks :
          /\ AsyncNext(t)
          /\ \E inp \in TaskInputs(t) :
                CommitCmd(t, task_owner(t), coc[task_owner(t)],
                          task_callback(Here, t, inp), Tail(asyncq), TRUE)

\* the access token reaches its expiry time
TokenExpires ==
    /\ UserTurn
    /\ cfg.token = "valid"
    /\ cfg' = [cfg EXCEPT !.token = "expired"]
    /\ ev' = Quiet
    /\ last' = NoLast
    /\ UNCHANGED <<lm, wire, opened, nextStream, asyncq, drn, now, registry, peer,
                   project_ok, period, timers, terminal, coc, stack, panel, reads, feed,
                   code>>

\* the user starts a command whose prerequisites hold, and the cloud grants
\* its requests: the command ends without a nested command
CommandDone ==
    /\ stack = <<>>
    /\ project_ok
    /\ \E target \in {"imp_show_console", "imp_build_and_run"} :
          LET e == run(Here, target, None, Default) IN
          /\ e.stack = <<>>
          /\ CommitCmd("run", target, None, e, asyncq, TRUE)

\* the callback queued by LogManager.check_imp_error runs imp_show_console with
\* cmd_on_complete "auth": the access token is renewed and the command ends as
\* ImpShowConsoleCommand.action does, or the chain stops at a prerequisite.
\* The command is not enabled (is_enabled) once the window is no project window.
AsyncShowConsole ==
    /\ AsyncNext("imp_show_console(auth)")
    /\ \E renewed \in BOOLEAN :
          LET e0 == init_tty(init_env_and_settings(Here))
              e == IF ~project_ok THEN Here
                   ELSE IF renewed THEN ImpShowConsoleCommand_action(e0) ELSE e0
          IN Commit("imp_show_console(auth)", e, Tail(asyncq))
    /\ ev' = Quiet
    /\ UNCHANGED <<drn, now, project_ok, period, timers, cfg, coc, stack, panel, reads, feed,
                   code>>

\* ImpAssignDeviceCommand.on_device_name_provided, lines 1646-1672: the device
\* is in the group already, or the cloud assigns it
AssignDevice ==
    /\ stack = <<>>
    /\ project_ok
    /\ registry
    /\ \E same \in BOOLEAN :
          Commit("on_device_name_provided",
                 [Here EXCEPT !.sched =
                     IF same THEN <<"reset(is_restart=True)">>
                     ELSE <<"reset(is_restart=True)", "update_log_windows(False)">>],
                 asyncq)
    /\ ev' = Quiet
    /\ UNCHANGED <<drn, now, project_ok, period, timers, cfg, coc, stack, panel, reads, feed,
                   code>>

\* the server sends lines on the open connection
ServerSends ==
    /\ lm.sock # NoSock /\ lm.sock.fp /\ ~wire.eof
    /\ \E c \in Chunks :
          /\ Len(wire.buf) + Len(c) <= MaxBuf
          /\ wire.sent < MaxChunks
          /\ wire' = [wire EXCEPT !.buf = @ \o c, !.sent = @ + 1, !.since = now]
    /\ last' = NoLast
    /\ UNCHANGED <<lm, opened, nextStream, asyncq, drn, now, registry, peer, project_ok,
                   period, timers, terminal, cfg, coc, stack, panel, reads, feed,
                   code>>
    /\ ev' = Quiet

\* the server ends the stream
ServerEnds ==
    /\ lm.sock # NoSock /\ lm.sock.fp /\ ~wire.eof
    /\ wire' = [wire EXCEPT !.eof = TRUE]
    /\ last' = NoLast
    /\ UNCHANGED <<lm, opened, nextStream, asyncq, drn, now, registry, peer, project_ok,
                   period, timers, terminal, cfg, coc, stack, panel, reads, feed,
                   code>>
    /\ ev' = Quiet

\* time passes
ClockAdvance ==
    /\ now + PL_KEEP_ALIVE_TIMEOUT + 1 <= MaxClock
    /\ now' = now + PL_KEEP_ALIVE_TIMEOUT + 1
    /\ last' = NoLast
    /\ UNCHANGED <<lm, wire, opened, nextStream, asyncq, drn, registry, peer, project_ok,
                   period, timers, terminal, cfg, coc, stack, panel, reads, feed,
                   code>>
    /\ ev' = Quiet

\* the project window is closed
ProjectClosed ==
    /\ project_ok
    /\ project_ok' = FALSE
    /\ last' = NoLast
    /\ UNCHANGED <<lm, wire, opened, nextStream, asyncq, drn, now, registry, peer,
                   period, timers, terminal, cfg, coc, stack, panel, reads, feed,
                   code>>
    /\ ev' = Quiet

\* the log session with its scheduler, its stream and the commands that use it
Next ==
    \/ Tick
    \/ AsyncUpdate
    \/ AsyncReset
    \/ AsyncShowConsole
    \/ DrainBegin
    \/ DrainRun
    \/ DrainResume
    \/ CommandDone
    \/ AssignDevice
    \/ ServerSends
    \/ ServerEnds
    \/ ClockAdvance
    \/ ProjectClosed

Spec == Init /\ [][Next]_vars

\* the settings a project starts with
InitCfgs ==
    {c \in [legacy : BOOLEAN, node : BOOLEAN, builder : BOOLEAN,
            node_found : BOOLEAN, builder_found : BOOLEAN, url : BOOLEAN,
            token : {None, "expired", "valid"}, product : BOOLEAN,
            group : BOOLEAN, deployment : BOOLEAN] :
        /\ c.node_found => c.node
        /\ c.builder_found => c.builder
        /\ c.node_found = c.builder_found
        /\ Cardinality({j \in DOMAIN commands : ~check(j, c)}) <= MaxUnmet}

InitChain == InitLog /\ cfg \in InitCfgs

\* the commands with their prerequisite chain, and the log session they start
NextChain ==
    \/ Command
    \/ Step
    \/ AnswerPanel
    \/ ClosePanel
    \/ AsyncTask
    \/ TokenExpires
    \/ AsyncUpdate
    \/ DrainBegin
    \/ DrainRun

SpecChain == InitChain /\ [][NextChain]_vars

(***************************************************************************)
(* Properties of the log session                                           *)
(***************************************************************************)
\* C1: at the end of every handler (start, stop, reset, a drain, the creation
\* of the console, a tick) the session holds a connection (sock is not None)
\* if and only if its state is POLL
SockIffPoll == (lm.sock # NoSock) <=> (lm.state = POLL)

\* a session that polls its second stream: it was reset and started again
SockIffPoll_witness ==
    /\ lm.state = POLL
    /\ lm.sock # NoSock
    /\ nextStream > 1
    /\ last.op = "__update_logs"

\* the fields reset() is to leave empty
Cleared(l) ==
    /\ l.sock = NoSock
    /\ l.poll_url = NoId
    /\ l.last_shown_log = NoLog
    /\ l.keep_alive = NoTime

\* C2: when reset(restart) returns, the connection the session held is closed,
\* sock, poll_url, last_shown_log and keep_alive are None and the state is IDLE
\* (never POLL), whatever the state was; stop(restart) has run: from POLL it
\* has written the restart line and queued update_log_windows(False), from
\* INIT it has written the not-started line
ResetClears ==
    /\ last.resets > 0 =>
          /\ Cleared(last.snap)
          /\ last.snap.state = IDLE
          /\ last.pre.sock # NoSock =>
                 last.closes > 0 /\ last.pre.sock.id \notin opened
    /\ last.op = "reset(is_restart=True)" =>
          /\ last.resets = 1
          /\ Cleared(lm) /\ lm.state = IDLE
          /\ last.pre.state = POLL =>
                 /\ last.sched = <<"update_log_windows(False)">>
                 /\ Len(last.written) = 1
                 /\ last.written[1].message = STR_MESSAGE_LOG_STREAM_RESTART[1]
          /\ last.pre.state = INIT =>
                 /\ last.sched = <<>>
                 /\ Len(last.written) = 1
                 /\ last.written[1].message = STR_MESSAGE_LOG_STREAM_NOT_STARTED[1]
          /\ last.pre.state = IDLE => last.sched = <<>> /\ last.written = <<>>
    /\ \A s \in {IDLE, INIT, POLL, FAIL} : \A r \in BOOLEAN :
          /\ Cleared(reset([Here EXCEPT !.lm.state = s], r).lm)
          /\ reset([Here EXCEPT !.lm.state = s], r).lm.state = IDLE

\* reset(is_restart=True) has returned for a session that was polling
ResetClears_witness ==
    /\ last.op = "reset(is_restart=True)"
    /\ last.pre.state = POLL
    /\ last.pre.sock # NoSock
    /\ last.closes = 1

\* C3: a step that takes the session out of POLL closes its connection and
\* clears sock and poll_url, and a step that takes it into POLL has created a
\* new log stream, with an identifier no earlier stream had
LeavingPollCloses ==
    [][/\ (lm.state = POLL /\ lm'.state # POLL) =>
              /\ lm'.sock = NoSock
              /\ lm'.poll_url = NoId
              /\ lm.sock.id \notin opened'
       /\ (lm.state # POLL /\ lm'.state = POLL) =>
              /\ nextStream' = nextStream + 1
              /\ lm'.poll_url = nextStream'
              /\ lm'.sock.id = nextStream'
              /\ opened' = {nextStream'}]_vars

\* a drain has taken the session out of POLL and closed the connection
LeavingPollCloses_witness ==
    /\ last.op = "__update_logs"
    /\ last.state = POLL
    /\ lm.state = IDLE
    /\ last.closes = 1
    /\ lm.poll_url = NoId

\* the __update_logs callbacks that are queued or running
Drains ==
    Cardinality({i \in DOMAIN asyncq : asyncq[i] = "__update_logs"})
        + (IF drn.pc # "idle" THEN 1 ELSE 0)

\* C9: at most one drain (__update_logs) of the session is queued or running
\* at any time
OneDrain == Drains <= 1

\* the lines of a handler that say the stream was closed
ClosedNotices(written) ==
    {i \in DOMAIN written :
        \E k \in DOMAIN written[i].message : written[i].message[k] = "closed"}

\* C10: the drain that reads a "data: closed" state frame leaves the session
\* in IDLE or FAIL and writes exactly one line that says the stream was closed
ClosedFrameNotice ==
    last.closedRead =>
        /\ lm.state \in {IDLE, FAIL}
        /\ Cardinality(ClosedNotices(last.written)) = 1

(***************************************************************************)
(* Properties of the prerequisite chain.  ev describes the last step of a  *)
(* command: ev.op = "run" with ev.cont = "none" is a call of run without   *)
(* cmd_on_complete, ev.unmet the prerequisites that did not hold then.     *)
(***************************************************************************)
\* the place of a command in the list of run, Len(commands) + 1 if it has none
position(cmd) ==
    IF \E j \in DOMAIN commands : commands[j] = cmd
    THEN CHOOSE j \in DOMAIN commands : commands[j] = cmd
    ELSE Len(commands) + 1

\* the unmet prerequisites that precede the command of the last step
UnmetBefore == {j \in ev.unmet : j < position(ev.cmd)}

FirstUnmet == CHOOSE j \in UnmetBefore : \A k \in UnmetBefore : j <= k

\* C4: a run of a target with exactly one unmet prerequisite i makes exactly
\* one call, run_command(commands[i], cmd_on_complete = target), and does not
\* enter the action of the target; a run never invokes the remediation of a
\* prerequisite that holds, and a run with every prerequisite true checks
\* them all and enters the action of the target
OneUnmetOneRemediation ==
    (ev.op = "run" /\ ev.cont = None) =>
        /\ \A i \in DOMAIN commands :
              (ev.unmet = {i} /\ i < position(ev.cmd)) =>
                  /\ ev.invoked = <<[cmd |-> commands[i], cont |-> ev.cmd]>>
                  /\ ev.acted = <<>>
        /\ \A i \in DOMAIN commands : \A k \in DOMAIN ev.invoked :
              (ev.invoked[k].cmd = commands[i] /\ ev.invoked[k].cont = ev.cmd) =>
                  i \in ev.unmet
        /\ ev.unmet = {} =>
              /\ ev.checks = [j \in 1..(position(ev.cmd) - 1) |-> j]
              /\ ev.acted = <<ev.cmd>>

\* imp_show_console runs again, called by the remediation that has completed,
\* finds every prerequisite true and enters its action
OneUnmetOneRemediation_witness ==
    /\ ev.op = "run"
    /\ ev.cont = None
    /\ ev.cmd = "imp_show_console"
    /\ ev.depth > 0
    /\ ev.unmet = {}
    /\ ev.acted = <<"imp_show_console">>
    /\ Len(ev.checks) = Len(commands)

\* C5: a run without cmd_on_complete evaluates the checks in the order of the
\* list from its first entry, up to the first one that fails or to the entry
\* before the command itself: no check at or after the place of the command
\* is evaluated, only the first unmet prerequisite before the command is
\* invoked with the command as continuation, and the action is not entered then
ChecksInOrder ==
    (ev.op = "run" /\ ev.cont = None) =>
        /\ ev.checks = [j \in 1..(IF UnmetBefore = {} THEN position(ev.cmd) - 1
                                  ELSE FirstUnmet) |-> j]
        /\ \A k \in DOMAIN ev.checks : ev.checks[k] < position(ev.cmd)
        /\ \A k \in DOMAIN ev.invoked :
              ev.invoked[k].cont = ev.cmd =>
                  UnmetBefore # {} /\ ev.invoked[k].cmd = commands[FirstUnmet]
        /\ UnmetBefore # {} => ev.acted = <<>> /\ Len(ev.invoked) = 1

\* a run that stops at the first of two unmet prerequisites
ChecksInOrder_witness ==
    /\ ev.op = "run"
    /\ ev.cont = None
    /\ Cardinality(UnmetBefore) = 2
    /\ Len(ev.invoked) = 1
    /\ ev.checks = [j \in 1..FirstUnmet |-> j]

\* the remediations in flight: the calls of a command with cmd_on_complete that
\* have not returned or are about to be entered, and the remediation that
\* waits for the answer to its panel
InFlight ==
    Cardinality({i \in DOMAIN stack :
                    \/ stack[i].k = "refresh_failed"
                    \/ /\ stack[i].k = "run"
                       /\ stack[i].cont # None
                       /\ stack[i].cmd # "imp_show_console"})
        + (IF panel # None /\ coc[panel_owner(panel)] # None THEN 1 ELSE 0)

\* C6: at most one remediation is in flight at any time
OneRemediationInFlight == InFlight <= 1

\* C7: a step of a remediation (a command with cmd_on_complete) in which its
\* request failed or the user answered Cancel invokes nothing but, at most,
\* the same remediation again: the continuation is not invoked
NoContinuationAfterCancel ==
    (ev.cont # None /\ ev.cmd # "imp_show_console" /\ (ev.declined \/ ev.failed)) =>
        \A k \in DOMAIN ev.invoked :
            ev.invoked[k].cmd = ev.cmd /\ ev.invoked[k].cont = ev.cont

\* C8: between two inputs of the user at most one request to refresh the
\* access token is sent
OneRefreshPerTrigger == ev.auto <= 1

\* C11: a drain of a session in POLL on whose connection nothing has arrived
\* for more than 60 seconds calls reset()
SilentStreamReset == (last.op = "__update_logs" /\ last.silent) => last.resets > 0

\* the last handler was a drain in POLL whose keep-alive watchdog reset the
\* session, and the session is still as the reset left it
WatchdogReset ==
    /\ last.op = "__update_logs" /\ last.state = POLL
    /\ last.resets > 0 /\ ~last.closedRead /\ ~last.exc
    /\ last.pre.sock # NoSock /\ last.pre.sock.fp
    /\ last.pre.keep_alive # NoTime /\ last.created = {}
    /\ lm.state = IDLE
    /\ registry /\ project_ok

\* C12: the scheduler tick that follows a reset by the keep-alive watchdog
\* starts the session again (INIT, then POLL on a fresh stream) with no user
\* action
WatchdogRestart == [][(WatchdogReset /\ last'.op = "tick") => lm'.state = INIT]_vars

\* the imp_show_console commands with the continuation "auth" a handler queued
AuthConsoles(sched) == {i \in DOMAIN sched : sched[i] = "imp_show_console(auth)"}

(***************************************************************************)
(* A drain and a command at the same time: __update_logs runs on the async *)
(* thread, the commands on the main thread.                                *)
(***************************************************************************)
\* the access token expires while the request of the drain that carries it
\* is on its way
TokenExpiresInFlight ==
    /\ stack = <<>>
    /\ drn.pc = "run"
    /\ cfg.token = "valid" /\ drn.token = "valid"
    /\ cfg' = [cfg EXCEPT !.token = "expired"]
    /\ drn' = [drn EXCEPT !.token = "expired"]
    /\ ev' = Quiet
    /\ last' = NoLast
    /\ UNCHANGED <<lm, wire, opened, nextStream, asyncq, now, registry, peer,
                   project_ok, period, timers, terminal, coc, stack, panel, reads, feed,
                   code>>

\* the user starts a command while the request of the drain is on its way
CommandInFlight ==
    /\ stack = <<>>
    /\ drn.pc = "run"
    /\ project_ok
    /\ ev.started < MaxCommands
    /\ \E target \in {"imp_show_console", "imp_build_and_run"} :
          \E inp \in RunInputs(Here, target, None) :
             LET e == run(Here, target, None, inp) IN
             /\ Len(e.stack) <= MaxDepth
             /\ Refreshes(e) <= MaxAuto
             /\ Commit("run", e, asyncq)
             /\ cfg' = e.cfg
             /\ coc' = e.coc
             /\ stack' = e.stack
             /\ panel' = e.panel
             /\ ev' = [Event("run", target, None, e, TRUE) EXCEPT !.started = @ + 1]
             /\ timers' = timers + e.timers
             /\ UNCHANGED <<drn, now, project_ok, period, reads, feed,
                   code>>

\* a session that was started by imp_show_console and waits for its first drain
InitRace ==
    /\ lm = [LogManagerInit EXCEPT !.state = INIT]
    /\ wire = NoWire
    /\ opened = {}
    /\ nextStream = 0
    /\ asyncq = <<"__update_logs">>
    /\ drn = Idle
    /\ now = 0
    /\ registry = TRUE
    /\ project_ok = TRUE
    /\ period = PL_LOGS_UPDATE_LONG_PERIOD
    /\ timers = 1
    /\ peer = NoPeer
    /\ last = NoLast
    /\ terminal = TRUE
    /\ cfg = Satisfied
    /\ coc = [c \in CommandNames |-> None]
    /\ stack = <<>>
    /\ panel = None
    /\ ev = NoEv
    /\ reads = <<>>
    /\ feed = NoFeed
    /\ code = NoCode

NextRace ==
    \/ DrainBegin
    \/ TokenExpiresInFlight
    \/ CommandInFlight
    \/ Step
    \/ DrainRun
    \/ AsyncTask
    \/ AsyncUpdate

SpecRace == InitRace /\ [][NextRace]_vars

\* C18: when the access token was renewed while a request of the drain carried
\* the old one, the "invalid credentials" answer to that request queues no
\* imp_show_console with the continuation "auth", the command that clears the
\* token and renews it again
StaleDenialIgnored ==
    (last.op = "__update_logs" /\ last.stale /\ last.denied /\ cfg.token = "valid") =>
        AuthConsoles(last.sched) = {}

(***************************************************************************)
(* Properties of the first drain of a session                              *)
(***************************************************************************)
\* a drain of a session in INIT is about to call query_logs
FirstDrain == drn.pc = "run" /\ lm.state = INIT /\ cfg.group

\* the attach requests sent for n devices: up to the first one that fails
Attached(a, n) ==
    IF \E i \in 1..n : a.attach[i] # "ok"
    THEN CHOOSE i \in 1..n :
            a.attach[i] # "ok" /\ \A j \in 1..(i - 1) : a.attach[j] = "ok"
    ELSE n

\* the requests of the steps in their order, each step only after the
\* success of the step before it
StepsInOrder(a) ==
    <<"list_devices">>
    \o (IF a.list = "ok" /\ Len(a.devices) > 0
        THEN <<"create_log_stream">>
             \o (IF a.create = "ok"
                 THEN <<"open_log_stream">>
                      \o (IF a.open = "ok"
                          THEN [i \in 1..Attached(a, Len(a.devices)) |->
                                   "attach_device_to_log_stream"]
                          ELSE <<>>)
                 ELSE <<>>)
        ELSE <<>>)

\* every step succeeds
AllSucceed(a) ==
    /\ a.list = "ok" /\ Len(a.devices) > 0
    /\ a.create = "ok" /\ a.open = "ok"
    /\ \A i \in 1..Len(a.devices) : a.attach[i] = "ok"

\* the lines of a handler that are the status line text
Notices(written, text) == {i \in DOMAIN written : written[i].message = split(text)}

NoDeviceNoStream ==
    FirstDrain =>
        \A a \in AnswersNow :
            (a.list = "ok" /\ a.devices = <<>>) =>
                LET r == after_query(query_logs(Here, cfg.group, a))
                IN /\ r.lm.state = IDLE
                   /\ Cardinality(Notices(r.written, STR_MESSAGE_ASSIGN_DEVICE)) = 1
                   /\ r.created = {} /\ r.nextStream = nextStream
                   /\ r.opened = opened /\ r.lm.sock = NoSock
                   /\ r.requests = <<"list_devices">>

\* a first drain has found no device
NoDeviceNoStream_witness ==
    /\ last.op = "__update_logs" /\ last.state = INIT
    /\ Cardinality(Notices(last.written, STR_MESSAGE_ASSIGN_DEVICE)) = 1
    /\ last.created = {} /\ lm.state = IDLE

\* C17: a drain in which a request of the session (list devices, create
\* stream, open stream, attach device) was answered "invalid credentials"
\* queues exactly one imp_show_console with the continuation "auth"
DeniedRaisesAuth ==
    (last.op = "__update_logs" /\ last.denied) =>
        Cardinality(AuthConsoles(last.sched)) = 1

\* C19: a drain that ends with an error of the transport, the read of a
\* connection that the server has ended, leaves the session in FAIL
TransportErrorFails ==
    (last.op = "__update_logs" /\ last.exc /\ ~last.closedRead /\ wire.eof) =>
        lm.state = FAIL

(***************************************************************************)
(* The reads of a session: __update_logs applied to the batches that       *)
(* query_logs can return while the session polls.                          *)
(***************************************************************************)
\* the log string of record i of the cloud; the records differ in their text
Record(i) ==
    << <<"dev1", "2018-01-01T00:00:00.000Z", "dep1", "server.log",
         <<"A", "B", "C", "D", "E">>[i]>> >>

\* the value of logs_json["logs"]: records of the cloud, none of them twice
Batches ==
    {b \in UNION {[1..n -> 1..MaxRecords] : n \in 0..MaxRecords} :
        \A i, j \in DOMAIN b : i # j => b[i] # b[j]}

\* the records of the console lines written
Ids(written) ==
    [k \in DOMAIN written |->
        CHOOSE i \in 1..MaxRecords : written[k].message = <<Record(i)[1][5]>>]

\* __update_logs, lines 2501-2528, when query_logs returns the batch b
ReadBatch ==
    /\ AsyncNext("__update_logs")
    /\ lm.sock # NoSock /\ lm.sock.fp
    /\ Len(reads) < MaxReads
    /\ \E b \in Batches :
          LET e == after_query([Here EXCEPT
                       !.lm.update_log_started = TRUE,
                       !.ret = RetLogs([k \in DOMAIN b |-> Record(b[k])])])
          IN /\ Commit("__update_logs", e, Tail(asyncq))
             /\ code' = e.code
             /\ reads' = Append(reads, [batch |-> b, out |-> Ids(e.written),
                                        stream |-> lm.sock.id])
    /\ ev' = Quiet
    /\ UNCHANGED <<drn, now, project_ok, period, timers, cfg, coc, stack, panel, feed>>

\* a session that polls its first stream, in a project that is set up
InitReads ==
    /\ lm = [LogManagerInit EXCEPT !.poll_url = 1, !.sock = [id |-> 1, fp |-> TRUE],
                                   !.devices = <<1>>, !.state = POLL]
    /\ wire = NoWire
    /\ opened = {1}
    /\ nextStream = 1
    /\ asyncq = <<>>
    /\ drn = Idle
    /\ now = 0
    /\ registry = TRUE
    /\ project_ok = TRUE
    /\ period = PL_LOGS_UPDATE_SHORT_PERIOD
    /\ timers = 1
    /\ peer = NoPeer
    /\ last = NoLast
    /\ terminal = TRUE
    /\ cfg = Satisfied
    /\ coc = [c \in CommandNames |-> None]
    /\ stack = <<>>
    /\ panel = None
    /\ ev = NoEv
    /\ reads = <<>>
    /\ feed = NoFeed
    /\ code = NoCode

\* the reads of a session, its resets and its restarts
NextReads ==
    \/ Tick
    \/ ReadBatch
    \/ AssignDevice
    \/ AsyncReset
    \/ AsyncUpdate
    \/ DrainBegin
    \/ DrainRun

SpecReads == InitReads /\ [][NextReads]_vars

(***************************************************************************)
(* Properties of the reads                                                 *)
(***************************************************************************)
\* the records of the batches before read k
Delivered(k) == UNION {{reads[j].batch[i] : i \in DOMAIN reads[j].batch} : j \in 1..(k - 1)}

\* the last N records of read k - 1 are the first N records of read k, on the
\* same stream, and the other records of read k were never delivered before
Overlap(k, N) ==
    LET prev == reads[k - 1].batch
        cur == reads[k].batch
    IN /\ reads[k].stream = reads[k - 1].stream
       /\ N <= Len(prev) /\ N <= Len(cur)
       /\ SubSeq(prev, Len(prev) - N + 1, Len(prev)) = SubSeq(cur, 1, N)
       /\ \A i \in (N + 1)..Len(cur) : cur[i] \notin Delivered(k)

NoDuplicate(seq) == \A i, j \in DOMAIN seq : i # j => seq[i] # seq[j]

\* C13: when the last N records of a read are the first N records of the next
\* read, the next read shows the records after the N-th, in their order, and
\* the lines the two reads have written hold no record twice
DedupOverlap ==
    \A k \in 2..Len(reads) : \A N \in 0..Len(reads[k].batch) :
        Overlap(k, N) =>
            /\ reads[k].out = SubSeq(reads[k].batch, N + 1, Len(reads[k].batch))
            /\ NoDuplicate(reads[k - 1].out \o reads[k].out)

\* three reads: the record shown last is the oldest record of the second read
\* and the newest record of the third
DedupOverlap_witness ==
    /\ Len(reads) = 3
    /\ Overlap(2, 1) /\ Len(reads[2].batch) > 1 /\ reads[2].out # <<>>
    /\ Overlap(3, Len(reads[3].batch)) /\ Len(reads[3].batch) > 0
    /\ reads[3].out = <<>>

\* C14: the lines a session has written hold no record twice, whatever the
\* batches and with resets and restarts between them
NeverShownTwice ==
    \A k1, k2 \in DOMAIN reads :
        \A i1 \in DOMAIN reads[k1].out : \A i2 \in DOMAIN reads[k2].out :
            (k1 # k2 \/ i1 # i2) => reads[k1].out[i1] # reads[k2].out[i2]

(***************************************************************************)
(* The parser on a full buffer: __read_logs when the server has sent many  *)
(* frames before the drain runs.                                           *)
(***************************************************************************)
\* k frames "event: message" with one "data:" line each, every frame followed
\* by a blank line or none of them
RECURSIVE Frames(_, _)
Frames(k, separated) ==
    IF k = 0 THEN <<>>
    ELSE <<EvMessage, Data(LogA[1])>> \o (IF separated THEN <<Blank>> ELSE <<>>)
         \o Frames(k - 1, separated)

\* a session that polls, with the frames the server has sent and a drain queued
InitParser ==
    /\ lm = [LogManagerInit EXCEPT !.poll_url = 1, !.sock = [id |-> 1, fp |-> TRUE],
                                   !.devices = <<1>>, !.state = POLL]
    /\ \E k \in 0..MaxFrames : \E separated \in BOOLEAN :
          wire = [NoWire EXCEPT !.buf = Frames(k, separated)]
    /\ opened = {1}
    /\ nextStream = 1
    /\ asyncq = <<"__update_logs">>
    /\ drn = Idle
    /\ now = 0
    /\ registry = TRUE
    /\ project_ok = TRUE
    /\ period = PL_LOGS_UPDATE_SHORT_PERIOD
    /\ timers = 1
    /\ peer = NoPeer
    /\ last = NoLast
    /\ terminal = TRUE
    /\ cfg = Satisfied
    /\ coc = [c \in CommandNames |-> None]
    /\ stack = <<>>
    /\ panel = None
    /\ ev = NoEv
    /\ reads = <<>>
    /\ feed = NoFeed
    /\ code = NoCode

NextParser ==
    \/ Tick
    \/ DrainBegin
    \/ DrainRun
    \/ DrainResume
    \/ ServerEnds

SpecParser == InitParser /\ [][NextParser]_vars

\* the frames the running invocation of __read_logs has taken from the stream
FramesDrained == PL_LOGS_MAX_PER_REQUEST - drn.loc.count

\* C20: one invocation of __read_logs takes at most N = 30 frames from the
\* stream, whether or not blank lines separate the frames
FramesBounded == FramesDrained <= PL_LOGS_MAX_PER_REQUEST

(***************************************************************************)
(* Properties of the parser                                                *)
(***************************************************************************)
\* the running drain stands in a readline of "for line in self.sock" with no
\* line to read
WaitsForLine == drn.pc = "blocked" /\ wire.buf = <<>> /\ ~wire.eof

\* C21: __read_logs never waits for a line that has not arrived
NeverWaits == ~WaitsForLine

(***************************************************************************)
(* The same lines in different pieces: the server sends the lines of a     *)
(* script in pieces of any length while the ticks drain the stream.        *)
(***************************************************************************)
\* the frames of a script: a record, a record of two lines, another record,
\* the state frames, a keep-alive comment
ScriptFrames ==
    { <<EvMessage, Data(LogA[1]), Blank>>,
      <<EvMessage, Data(LogA[1]), Data(LogB[1]), Blank>>,
      <<EvMessage, Data(LogB[1]), Blank>>,
      <<EvStateChange, DataOpened, Blank>>,
      <<EvStateChange, DataClosed, Blank>>,
      <<KeepAliveLine, Blank>> }

RECURSIVE Scripts(_)
Scripts(n) ==
    IF n = 0 THEN {<<>>}
    ELSE {f \o t : f \in ScriptFrames, t \in Scripts(n - 1)} \cup Scripts(n - 1)

\* the server sends the next k lines of the script on the first stream
FeedSends ==
    /\ lm.sock = [id |-> 1, fp |-> TRUE] /\ ~wire.eof
    /\ \E k \in 1..(Len(feed.script) - feed.pos) :
          /\ wire' = [wire EXCEPT
                         !.buf = @ \o SubSeq(feed.script, feed.pos + 1, feed.pos + k),
                         !.since = now]
          /\ feed' = [feed EXCEPT !.pos = @ + k]
    /\ last' = NoLast
    /\ ev' = Quiet
    /\ UNCHANGED <<lm, opened, nextStream, asyncq, drn, now, registry, peer, project_ok,
                   period, timers, terminal, cfg, coc, stack, panel, reads, code>>

\* the end of a piece of __update_logs; feed keeps what query_logs returned
FeedCommit(e) ==
    /\ Commit("__update_logs", e, asyncq)
    /\ drn' = IF e.blocked THEN [pc |-> "blocked", loc |-> e.loc, token |-> drn.token]
               ELSE Idle
    /\ ev' = Quiet
    /\ feed' = [feed EXCEPT !.emitted =
                   IF e.blocked \/ e.ret.none THEN @ ELSE @ \o e.ret.logs]
    /\ code' = e.code
    /\ UNCHANGED <<now, project_ok, period, timers, cfg, coc, stack, panel, reads>>

\* __update_logs from query_logs on
FeedDrainRun ==
    /\ stack = <<>>
    /\ drn.pc = "run"
    /\ \E a \in AnswersNow : FeedCommit(after_query(query_logs(Here, cfg.group, a)))

\* __update_logs goes on when the readline gets a line
FeedDrainResume ==
    /\ drn.pc = "blocked"
    /\ Len(wire.buf) > 0 \/ wire.eof
    /\ FeedCommit(after_query(read_for([Here EXCEPT !.loc = drn.loc])))

\* a session that polls, and the script the server is to send
InitChunks ==
    /\ lm = [LogManagerInit EXCEPT !.poll_url = 1, !.sock = [id |-> 1, fp |-> TRUE],
                                   !.devices = <<1>>, !.state = POLL]
    /\ wire = NoWire
    /\ opened = {1}
    /\ nextStream = 1
    /\ asyncq = <<>>
    /\ drn = Idle
    /\ now = 0
    /\ registry = TRUE
    /\ project_ok = TRUE
    /\ period = PL_LOGS_UPDATE_SHORT_PERIOD
    /\ timers = 1
    /\ peer = NoPeer
    /\ last = NoLast
    /\ terminal = TRUE
    /\ cfg = Satisfied
    /\ coc = [c \in CommandNames |-> None]
    /\ stack = <<>>
    /\ panel = None
    /\ ev = NoEv
    /\ reads = <<>>
    /\ \E script \in Scripts(MaxScript) : feed = [NoFeed EXCEPT !.script = script]
    /\ code = NoCode

NextChunks ==
    \/ Tick
    \/ FeedSends
    \/ DrainBegin
    \/ FeedDrainRun
    \/ FeedDrainResume

SpecChunks == InitChunks /\ [][NextChunks]_vars

\* what the invocations of __read_logs return, one after the other, when all
\* the lines are in the connection before the first of them runs
RECURSIVE Reparse(_, _)
Reparse(e, emitted) ==
    LET r == __read_logs(e) IN
    IF r.blocked \/ r.exc THEN emitted
    ELSE IF r.lm.sock = NoSock \/ r.wire.buf = <<>> THEN emitted \o r.ret.logs
    ELSE Reparse([r EXCEPT !.lines = 0], emitted \o r.ret.logs)

AtOnce(script) ==
    Reparse([Here EXCEPT
                !.lm = [LogManagerInit EXCEPT !.poll_url = 1,
                                              !.sock = [id |-> 1, fp |-> TRUE],
                                              !.devices = <<1>>, !.state = POLL],
                !.wire = [NoWire EXCEPT !.buf = script]],
            <<>>)

IsPrefix(a, b) == Len(a) <= Len(b) /\ a = SubSeq(b, 1, Len(a))

\* every line of the script was sent and read, or the stream was closed
AllRead ==
    /\ drn.pc = "idle"
    /\ lm.sock.id # 1 \/ (feed.pos = Len(feed.script) /\ wire.buf = <<>>)

\* C22: the records __read_logs returns for the lines of a script are, in
\* their order and with their lines grouped in the same way, those it returns
\* when all the lines arrive at once, in whatever pieces the lines arrive
SamePiecesSameRecords ==
    /\ IsPrefix(feed.emitted, AtOnce(feed.script))
    /\ AllRead => feed.emitted = AtOnce(feed.script)

\* the lines of a record of two lines and of a further record were sent and
\* read, and both records were returned and shown
SamePiecesSameRecords_witness ==
    /\ AllRead
    /\ feed.script = <<EvMessage, Data(LogA[1]), Data(LogB[1]), Blank,
                       EvMessage, Data(LogB[1]), Blank>>
    /\ Len(feed.emitted) = 2
    /\ last.op = "__update_logs" /\ last.written # <<>>

(***************************************************************************)
(* Runtime errors: __update_logs applied to batches that hold runtime      *)
(* errors of the agent and device code, with and without preprocessed      *)
(* files in the build directory.                                           *)
(***************************************************************************)
\* a log string of the given type
Typed(type, words) ==
    << <<"dev1", "2018-01-01T00:00:00.000Z", "dep1", type>> \o words >>

\* more than three words, the second of which strptime does not accept
Malformed == << <<"dev1", "yesterday", "dep1", "server.log", "A">> >>

ErrorRecords ==
    { Typed("server.error", <<"ERROR:", "at", "main:1">>),
      Typed("agent.error", <<"ERROR:", "in", "main:3">>),
      Typed("agent.error", <<"ERROR:", "from", "main:9">>),
      Typed("server.error", <<"ERROR:", "the", "index">>),
      LogA,
      Malformed }

\* the value of logs_json["logs"]
ErrorBatches == UNION {[1..n -> ErrorRecords] : n \in 0..MaxErrorBatch}

\* what the build directory can hold for one source type
CodeFiles == {NoFile, File(<<Text>>), File(<<Mark(5, "lib.nut"), Text, Text>>)}

\* __update_logs, lines 2501-2528, when query_logs returns the batch b
ReadErrors ==
    /\ AsyncNext("__update_logs")
    /\ lm.sock # NoSock /\ lm.sock.fp
    /\ Len(reads) < MaxErrorReads
    /\ \E b \in ErrorBatches :
          LET e == after_query([Here EXCEPT !.lm.update_log_started = TRUE,
                                            !.ret = RetLogs(b)])
          IN /\ Commit("__update_logs", e, Tail(asyncq))
             /\ code' = e.code
             /\ reads' = Append(reads,
                   [batch |-> b, out |-> e.written, lookups |-> e.lookups,
                    exc |-> e.exc, busy |-> e.lm.update_log_started,
                    from |-> find_shown(b, lm.last_shown_log, Len(b))])
    /\ ev' = Quiet
    /\ UNCHANGED <<drn, now, project_ok, period, timers, cfg, coc, stack, panel, feed>>

\* a session that polls, a new Preprocessor, any files in the build directory
InitErrors ==
    /\ \E a, d \in CodeFiles :
          code = [NoCode EXCEPT !.files = [st \in {AGENT, DEVICE} |->
                                              IF st = AGENT THEN a ELSE d]]
    /\ lm = [LogManagerInit EXCEPT !.poll_url = 1, !.sock = [id |-> 1, fp |-> TRUE],
                                   !.devices = <<1>>, !.state = POLL]
    /\ wire = NoWire
    /\ opened = {1}
    /\ nextStream = 1
    /\ asyncq = <<>>
    /\ drn = Idle
    /\ now = 0
    /\ registry = TRUE
    /\ project_ok = TRUE
    /\ period = PL_LOGS_UPDATE_SHORT_PERIOD
    /\ timers = 1
    /\ peer = NoPeer
    /\ last = NoLast
    /\ terminal = TRUE
    /\ cfg = Satisfied
    /\ coc = [c \in CommandNames |-> None]
    /\ stack = <<>>
    /\ panel = None
    /\ ev = NoEv
    /\ reads = <<>>
    /\ feed = NoFeed


NextErrors ==
    \/ Tick
    \/ ReadErrors

SpecErrors == InitErrors /\ [][NextErrors]_vars

\* the record that the console line k of a read is written for
RecordOf(r, k) == r.batch[r.from + k]

\* C23: a lookup of the line table returns the mapped location or a defined
\* "not found" result: no call of get_error_location raises.
LookupNeverRaises ==
    \A i \in DOMAIN reads : \A j \in DOMAIN reads[i].lookups :
        ~reads[i].lookups[j].raised

\* C24: when the lookup made for a runtime error fails, the console line of
\* the record carries the message as it was received, and a batch in which
\* every record can be parsed is written whole.
FailedLookupShowsOriginal ==
    \A i \in DOMAIN reads :
        LET r == reads[i] IN
        /\ \A j \in DOMAIN r.lookups :
              (r.lookups[j].raised \/ r.lookups[j].none) =>
                  /\ r.lookups[j].at <= Len(r.out)
                  /\ r.out[r.lookups[j].at].message =
                         __parse_log(RecordOf(r, r.lookups[j].at), FALSE).message
        /\ (\A k \in DOMAIN r.batch : __parse_log(r.batch[k], FALSE).ok) =>
              Len(r.out) = Len(r.batch) - r.from

\* a failed lookup in the middle of a batch: the record after it is written
FailedLookupShowsOriginal_witness ==
    \E i \in DOMAIN reads :
        /\ Len(reads[i].lookups) > 0
        /\ reads[i].lookups[1].raised
        /\ reads[i].lookups[1].at = 1
        /\ Len(reads[i].out) = 2
        /\ reads[i].out[2].message = <<"A">>

\* C25: a record that cannot be parsed is absorbed: the drain completes, the
\* busy flag is released and every other record of the batch is written.
MalformedAbsorbed ==
    \A i \in DOMAIN reads :
        LET r == reads[i] IN
        /\ ~r.exc
        /\ ~r.busy
        /\ Len(r.out) = Cardinality({k \in (r.from + 1)..Len(r.batch) :
                                        __parse_log(r.batch[k], FALSE).ok})

(***************************************************************************)
(* Properties of update_log_windows                                        *)
(***************************************************************************)
\* log records wait on the connection of the session
Producing ==
    \E i \in DOMAIN wire.buf :
        wire.buf[i].k = "data" /\ wire.buf[i] \notin {DataClosed, DataOpened}

\* C26: after a periodic tick the next one is scheduled with the short period
\* exactly when the session is in POLL and log records are arriving, and with
\* the long period otherwise.
PeriodFollowsLogs ==
    last.op = "tick" =>
        (period = PL_LOGS_UPDATE_SHORT_PERIOD <=> (last.state = POLL /\ Producing))

\* the last handler was update_log_windows, periodic or not
Ticked == last.op \in {"tick", "update_log_windows(False)"}

\* what update_logs() queues: a drain unless one is running
DrainAsked == IF lm.update_log_started THEN <<>> ELSE <<"__update_logs">>

Notice(text) == [device |-> "sublime", type |-> "[status.log]", message |-> split(text)]

\* C28: start() called in IDLE sets INIT and writes the "stream requested"
\* line once, and changes nothing else; called in INIT, POLL or FAIL it
\* changes nothing and writes nothing.  A handler that has taken the session
\* from IDLE to INIT has written the line exactly once.
StartEffect ==
    /\ \A st \in {IDLE, INIT, POLL, FAIL} :
          LET e == [Here EXCEPT !.lm.state = st]
          IN start(e) =
                IF st = IDLE
                THEN [e EXCEPT !.lm.state = INIT,
                               !.written = <<Notice(STR_MESSAGE_LOG_STREAM_REQUESTED)>>]
                ELSE e
    /\ (last.op # "init" /\ last.state = IDLE /\ lm.state = INIT) =>
          Cardinality(Notices(last.written, STR_MESSAGE_LOG_STREAM_REQUESTED)) = 1
    /\ (lm.state # INIT \/ last.state = INIT) =>
          Notices(last.written, STR_MESSAGE_LOG_STREAM_REQUESTED) = {}

\* a handler has started the session
StartEffect_witness ==
    /\ last.state = IDLE
    /\ lm.state = INIT
    /\ last.written # <<>>
    /\ last.written[Len(last.written)] = Notice(STR_MESSAGE_LOG_STREAM_REQUESTED)

\* the session after reset() in POLL; devices is the device list it then holds
Stopped(devices) ==
    [poll_url |-> NoId, last_shown_log |-> NoLog, sock |-> NoSock, devices |-> devices,
     state |-> IDLE, update_log_started |-> lm.update_log_started,
     keep_alive |-> NoTime]

\* reset(is_restart) applied to the session in POLL: the connection is closed,
\* the restart line is written and update_log_windows(False) queued, or the
\* stopped line is written and nothing queued; the session is IDLE and holds
\* the given device list
Stops(is_restart, devices) ==
    LET r == reset(Here, is_restart) IN
    /\ r.closes = 1
    /\ lm.sock.id \notin r.opened
    /\ r.lm = Stopped(devices)
    /\ r.written = <<Notice(IF is_restart THEN STR_MESSAGE_LOG_STREAM_RESTART
                            ELSE STR_MESSAGE_LOG_STREAM_STOPPED)>>
    /\ r.sched = IF is_restart THEN <<"update_log_windows(False)">> ELSE <<>>

\* the queued restart of a session that was polling has run: update_log_windows(False)
\* found the session IDLE
Restarted ==
    /\ last.op = "update_log_windows(False)"
    /\ registry
    /\ last.state = IDLE

Continued == {k \in DOMAIN ev.invoked : ev.invoked[k].cmd = ev.cont}

NoSelfContinuation ==
    /\ \A cmd \in CommandNames :
          LET r == run(Here, cmd, cmd, Default) IN
          r.acted = <<>> /\ r.invoked = <<>> /\ r.stack = stack /\ r.panel = panel
    /\ \A k \in DOMAIN ev.invoked : ev.invoked[k].cmd # ev.invoked[k].cont
    /\ \A f \in {stack[i] : i \in DOMAIN stack} : f.k = "run" => f.cmd # f.cont
    /\ \A cmd \in CommandNames : coc[cmd] # cmd

\* after an error the user asks for another try: the remediation calls
\* itself with the continuation it was given
NoSelfContinuation_witness ==
    /\ ev.cont # None
    /\ ev.failed
    /\ \E k \in DOMAIN ev.invoked : ev.invoked[k] = [cmd |-> ev.cmd, cont |-> ev.cont]

(***************************************************************************)
(* The opening of the connection: the drains of a session whose            *)
(* open_log_stream can also fail with an error that it does not catch.     *)
(***************************************************************************)
\* __update_logs from query_logs on, when urlopen raises in open_log_stream
DrainRunRaises ==
    /\ stack = <<>>
    /\ drn.pc = "run"
    /\ ~(lm.sock # NoSock /\ lm.sock.fp)
    /\ \E a \in AnswersNow :
          /\ a.list = "ok" /\ a.create = "ok" /\ a.open = "ok"
          /\ lm.poll_url = NoId => Len(a.devices) > 0
          /\ DrainCommit(after_query(query_logs(Here, cfg.group,
                                                [a EXCEPT !.open = "raise"])))

\* a project that is set up, whose command has queued update_log_windows(False)
InitOpen ==
    /\ lm = LogManagerInit
    /\ wire = NoWire
    /\ opened = {}
    /\ nextStream = 0
    /\ asyncq = <<"update_log_windows(False)">>
    /\ drn = Idle
    /\ now = 0
    /\ registry = TRUE
    /\ project_ok = TRUE
    /\ period = PL_LOGS_UPDATE_LONG_PERIOD
    /\ timers = 1
    /\ peer = NoPeer
    /\ last = NoLast
    /\ terminal = TRUE
    /\ cfg = Satisfied
    /\ coc = [c \in CommandNames |-> None]
    /\ stack = <<>>
    /\ panel = None
    /\ ev = NoEv
    /\ reads = <<>>
    /\ feed = NoFeed
    /\ code = NoCode

NextOpen ==
    \/ Tick
    \/ AsyncUpdate
    \/ AsyncReset
    \/ AssignDevice
    \/ DrainBegin
    \/ DrainRun
    \/ DrainRunRaises
    \/ ServerSends
    \/ DrainResume

SpecOpen == InitOpen /\ [][NextOpen]_vars

(***************************************************************************)
(* Properties of the poll token and of the busy flag                       *)
(***************************************************************************)
\* C32: between two handlers poll_url is set only while sock is set, and a
\* drain in which the connection could not be opened ends with poll_url None.
TokenOnlyWithConnection ==
    /\ lm.poll_url # NoId => lm.sock # NoSock
    /\ (last.op = "__update_logs" /\ last.created # {} /\ lm.sock = NoSock) =>
          lm.poll_url = NoId

\* C33: a drain that has ended, on whatever path, has set update_log_started
\* back to False.
BusyReleased ==
    (last.op = "__update_logs" /\ drn.pc = "idle") => ~lm.update_log_started

(***************************************************************************)
(* Properties of the states of the session                                 *)
(***************************************************************************)
\* a __update_logs is waiting on the queue of the async thread
DrainQueued == \E i \in DOMAIN asyncq : asyncq[i] = "__update_logs"

\* C34: whenever the session is in INIT and no drain is running, a drain is
\* queued for it, so that the session leaves INIT.
InitHasDrain ==
    (lm.state = INIT /\ drn.pc = "idle") => DrainQueued

\* C35: a drain creates a log stream, and with it enters POLL, only when it
\* found the session in INIT.
StreamOnlyFromInit ==
    (last.op = "__update_logs" /\ last.created # {}) => last.state = INIT

(***************************************************************************)
(* Properties of the periodic tick                                         *)
(***************************************************************************)
\* C36: exactly one periodic update_log_windows is pending at any time: the
\* tick schedules itself once, update_log_windows(False) schedules none.
OnePeriodicTick == timers = 1

\* update_log_windows(False) has run, from the queue or from handle_deployment
OnePeriodicTick_witness ==
    /\ timers = 1
    /\ \/ last.op = "update_log_windows(False)"
       \/ \E i \in DOMAIN last.written :
             last.written[i].message = <<"STR_STATUS_REVISION_UPLOADED">>

(***************************************************************************)
(* Two projects.  The first session polls its stream; the Env of a second  *)
(* project is in project_env_map, its session was never started, its       *)
(* project has no device group and its user does nothing.  The only        *)
(* command is the assignment of a device of the first project, which       *)
(* restarts the first session.                                             *)
(***************************************************************************)
\* __update_logs of the second session: query_logs returns None at line 2426
PeerDrain ==
    /\ AsyncNext("peer.__update_logs")
    /\ LET p == after_query(query_logs(
                    [Here EXCEPT !.lm = [peer.lm EXCEPT !.update_log_started = TRUE]],
                    FALSE, NoAnswer))
       IN Commit("peer.__update_logs", [Here EXCEPT !.peer.lm = p.lm], Tail(asyncq))
    /\ ev' = Quiet
    /\ UNCHANGED <<drn, now, project_ok, period, timers, cfg, coc, stack, panel, reads,
                   feed, code>>

InitTwo ==
    /\ lm = [LogManagerInit EXCEPT !.poll_url = 1, !.sock = [id |-> 1, fp |-> TRUE],
                                   !.devices = <<1>>, !.state = POLL]
    /\ wire = NoWire
    /\ opened = {1}
    /\ nextStream = 1
    /\ asyncq = <<>>
    /\ drn = Idle
    /\ now = 0
    /\ registry = TRUE
    /\ project_ok = TRUE
    /\ period = PL_LOGS_UPDATE_SHORT_PERIOD
    /\ timers = 1
    /\ peer = [in_map |-> TRUE, lm |-> LogManagerInit]
    /\ last = NoLast
    /\ terminal = TRUE
    /\ cfg = Satisfied
    /\ coc = [c \in CommandNames |-> None]
    /\ stack = <<>>
    /\ panel = None
    /\ ev = NoEv
    /\ reads = <<>>
    /\ feed = NoFeed
    /\ code = NoCode

NextTwo ==
    \/ Tick
    \/ AssignDevice
    \/ AsyncReset
    \/ AsyncUpdate
    \/ DrainBegin
    \/ DrainRun
    \/ DrainResume
    \/ ServerSends
    \/ PeerDrain

SpecTwo == InitTwo /\ [][NextTwo]_vars

\* C37: nothing that the restart of the first session does or queues changes
\* the LogManager of the second project or queues a drain of it.
OtherSessionsUntouched ==
    /\ peer.lm = LogManagerInit
    /\ \A i \in DOMAIN asyncq : asyncq[i] # "peer.__update_logs"

(***************************************************************************)
(* Properties of the removal from project_env_map                          *)
(***************************************************************************)
\* C38: once update_log_windows has removed the Env of a project from
\* project_env_map, no connection of its session is open.
RemovedIsClosed ==
    (last.op = "tick" /\ ~registry) => opened = {}

(***************************************************************************)
(* A second command at a prompt.  Sublime keeps one object of each command *)
(* class for the window, so cmd_on_complete of a remediation is one field  *)
(* (coc) whichever invocation set it.  An input panel does not block the   *)
(* window: the user can start another command while it is open.            *)
(***************************************************************************)
\* the user starts a second command, for another target, while a panel of a
\* remediation is open
CommandAtPrompt ==
    /\ UserTurn
    /\ project_ok
    /\ panel # None
    /\ ev.started = MaxCommands
    /\ \E target \in Targets \ {coc[panel_owner(panel)]} :
          \E inp \in RunInputs(Here, target, None) :
             LET e == run(Here, target, None, inp) IN
             /\ Len(e.stack) <= MaxDepth
             /\ Refreshes(e) <= MaxAuto
             /\ Commit("run", e, asyncq)
             /\ cfg' = e.cfg
             /\ coc' = e.coc
             /\ stack' = e.stack
             /\ panel' = e.panel
             /\ ev' = [Event("run", target, None, e, TRUE) EXCEPT !.started = @ + 1]
             /\ timers' = timers + e.timers
             /\ UNCHANGED <<drn, now, project_ok, period, reads, feed, code>>

\* a project whose user has not logged in
InitPrompt == InitLog /\ cfg \in {c \in InitCfgs : c.token = None}

NextPrompt ==
    \/ Command
    \/ CommandAtPrompt
    \/ Step
    \/ AnswerPanel
    \/ ClosePanel
    \/ AsyncTask

SpecPrompt == InitPrompt /\ [][NextPrompt]_vars

\* C39: while a remediation stays suspended at a prompt, the continuation that
\* was passed to it is the one it holds: no other invocation replaces it.
ContinuationKept ==
    [][\A c \in CommandNames :
          (/\ panel # None /\ panel_owner(panel) = c
           /\ panel' # None /\ panel_owner(panel') = c
           /\ coc[c] # None) => coc'[c] = coc[c]]_vars

(***************************************************************************)
(* Properties of run with and without cmd_on_complete                      *)
(***************************************************************************)
\* C40: a run with a cmd_on_complete that is not the name of the command
\* evaluates no check and enters the action of the command at once, "auth"
\* of LogManager.check_imp_error included; a run without cmd_on_complete that
\* enters the action has evaluated every check listed before the command and
\* has found each of them true.
ContinuationSkipsChecks ==
    /\ (ev.op = "run" /\ ev.cont # None /\ ev.cont # ev.cmd) =>
          /\ ev.checks = <<>>
          /\ ev.acted # <<>> /\ ev.acted[1] = ev.cmd
    /\ LET r == run(Here, "imp_show_console", "auth", Default) IN
       r.checks = <<>> /\ r.acted = <<"imp_show_console">>
    /\ (ev.op = "run" /\ ev.cont = None /\ ev.acted # <<>>) =>
          /\ ev.acted[1] = ev.cmd
          /\ UnmetBefore = {}
          /\ \A j \in DOMAIN commands :
                j < position(ev.cmd) => \E k \in DOMAIN ev.checks : ev.checks[k] = j

\* a remediation is run with the target as continuation and enters its action
\* while a prerequisite after it in the list does not hold
ContinuationSkipsChecks_witness ==
    /\ ev.op = "run"
    /\ ev.cont \in Targets
    /\ ev.cont # ev.cmd
    /\ ev.checks = <<>>
    /\ ev.acted = <<ev.cmd>>
    /\ ev.unmet # {}

====